---- MODULE Spec2Model ----
(***************************************************************************)
(* State-machine model of the tutoring session orchestrator:               *)
(*   whatsapp_webhook.receive_message (dispatcher),                         *)
(*   vocab_session_controller, reading_session_controller,                  *)
(*   open_reading_session_controller, the cursor helpers of sheet_utils,    *)
(*   the reply parsers of llm_utils and whatsapp_utils.send_whatsapp_message*)
(*                                                                         *)
(* receive_message is an `async def` whose body never awaits after reading *)
(* the request, and every call it makes is blocking: one inbound message   *)
(* is handled to completion before the next one is accepted.  One action   *)
(* of the model is therefore one whole call of receive_message.  SpecLoop  *)
(* is the finer model behind that choice: several requests in flight, each *)
(* body run one effect at a time under the scheduling of the event loop.   *)
(*                                                                         *)
(* Environment: under Spec the LLM endpoint answers every request with     *)
(* some reply text (parseable or not) and the HTTP post of a message may   *)
(* succeed or fail.  Under SpecOpeningFails the request that composes the  *)
(* opening question of a track (client.chat.completions.create in          *)
(* ask_vocab_meaning_question, generate_question_message and               *)
(* ask_open_question, none of which catches) may in addition raise.        *)
(* Strings are sequences of tokens; `x in s` is token containment.         *)
(***************************************************************************)
EXTENDS Integers, Sequences, FiniteSets, TLC

VARIABLES
  user_sheet,             \* "User List"/"Sheet1": sequence of student rows
  vocab_sessions,         \* dict phone -> {attempt, last_vocab}
  reading_sessions,       \* dict phone -> {passage, question, attempt, mode, last_user_answer}
  open_reading_sessions,  \* dict phone -> {question}
  last_sent_messages,     \* dict phone -> last text handed to the sender
  turn,                   \* the last call of receive_message: its input, the
                          \* state it found, and what it did, in order
  solo,                   \* per student: the program state that student's own
                          \* messages, handled alone and in order, lead to
  tasks                   \* per request in flight: where its coroutine stands

vars == <<user_sheet,
          vocab_sessions, reading_sessions, open_reading_sessions,
          last_sent_messages, turn, solo, tasks>>

(***************************************************************************)
(* Bounds of the model: content items per training day.                    *)
(***************************************************************************)
NumVocab == 2
NumClosed == 2
NumOpen == 2
\* the last training day a student is moved to
MaxDay == 2
\* the largest attempt counter a session is handed to a reply handler with
MaxAttemptValue == 4
\* requests the server holds at the same time
MaxInFlight == 2

(***************************************************************************)
(* Phone numbers: one registered student and one number that is not in the *)
(* user sheet; under SpecClass a second registered student.                *)
(***************************************************************************)
Student == "85254069056"
Classmate == "85291234567"
Stranger == "85200000000"

(***************************************************************************)
(* Python values.  None is the empty option <<>>, a present value v is     *)
(* <<v>>.  The empty string is the empty token sequence.                   *)
(***************************************************************************)
None == <<>>
Some(v) == <<v>>
EmptyString == <<>>

\* dict operations: d.get(k), d[k] = v, del d[k]
Get(d, k) == IF k \in DOMAIN d THEN Some(d[k]) ELSE None
Put(d, k, v) == [x \in (DOMAIN d) \cup {k} |-> IF x = k THEN v ELSE d[x]]
Del(d, k) == [x \in (DOMAIN d) \ {k} |-> d[x]]
EmptyDict == [x \in {} |-> None]

\* `needle in text` on token sequences
Contains(text, needle) == \E i \in DOMAIN text : text[i] = needle

\* str.lower(), token by token
LowerToken(t) ==
  CASE t = "Warm up" -> "warm up"
    [] t = "VOCAB" -> "vocab"
    [] t = "\"is_correct\": True" -> "\"is_correct\": true"
    [] t = "\"Answered\": true" -> "\"answered\": true"
    [] t = "\"Relevant\": true" -> "\"relevant\": true"
    [] OTHER -> t
Lower(text) == [i \in DOMAIN text |-> LowerToken(text[i])]

\* str.strip(): drop leading and trailing blank tokens
RECURSIVE LStrip(_)
LStrip(text) ==
  IF text # <<>> /\ Head(text) = " " THEN LStrip(Tail(text)) ELSE text
RECURSIVE RStrip(_)
RStrip(text) ==
  IF text # <<>> /\ text[Len(text)] = " "
  THEN RStrip(SubSeq(text, 1, Len(text) - 1)) ELSE text
Strip(text) == RStrip(LStrip(text))

(***************************************************************************)
(* Inputs: raw inbound messages, LLM replies, HTTP outcomes of a post.     *)
(***************************************************************************)
RawMessages ==
  { <<"start">>, <<"VOCAB">>, <<"reading">>, <<"Warm up">>,
    <<" ", "because", " ">> }

\* what the number outside the user sheet sends
StrangerMessages == { <<"VOCAB">> }

EvalReplies ==
  { <<"\"is_correct\": True">>, <<"\"is_correct\": false">>, <<"sorry">> }
AnsweredReplies == { <<"\"Answered\": true">>, <<"\"answered\": false">> }
RelevantReplies == { <<"\"Relevant\": true">>, <<"sorry">> }
NoReply == <<>>

\* what the LLM answers to the classification calls of one inbound message;
\* a call that is not made has no reply
\* opening: whether the request composing a track's opening question is
\* answered ("ok") or raises ("error")
NoLLM ==
  [answered |-> NoReply, relevant |-> NoReply, is_correct |-> NoReply,
   opening |-> "ok"]
RelevanceScripts == {[NoLLM EXCEPT !.relevant = r] : r \in RelevantReplies}
ReplyScripts ==
  {[NoLLM EXCEPT !.answered = a, !.is_correct = c] :
     a \in {x \in AnsweredReplies : Contains(Lower(x), "\"answered\": true")},
     c \in EvalReplies}
  \cup
  {[NoLLM EXCEPT !.answered = a, !.relevant = r] :
     a \in {x \in AnsweredReplies : ~Contains(Lower(x), "\"answered\": true")},
     r \in RelevantReplies}

\* the outcome of each HTTP post of one inbound message, in order
NetOutcomes == { <<"200", "200">>, <<"500", "exception">> }

(***************************************************************************)
(* Sheet contents.  The content sheets are only ever read; the user sheet  *)
(* is the one the cursors are written to.                                  *)
(***************************************************************************)
VocabRowsOfDay(d) ==
  [i \in 1..NumVocab |->
     [Day |-> d, Word |-> <<"word", d, i>>,
      ChineseExplaination |-> <<"meaning", d, i>>]]
ClosedRowsOfDay(d) ==
  [i \in 1..NumClosed |->
     [day_of_training |-> d, question_id |-> i,
      question_text |-> <<"question", d, i>>,
      answer_text |-> <<"answer", d, i>>,
      passage_text |-> <<"passage", d>>]]
OpenRowsOfDay(d) ==
  [i \in 1..NumOpen |->
     [day_of_training |-> d, question_id |-> i,
      question_text |-> <<"open question", d, i>>,
      learning_objective |-> <<"objective", d, i>>,
      answer_text |-> <<"open answer", d, i>>]]
\* "Question List"/"vocab", "Part 3-Closed-End Que", "Part 2-Open-End Que"
vocab_sheet == VocabRowsOfDay(1) \o VocabRowsOfDay(2)
close_reading_sheet == ClosedRowsOfDay(1) \o ClosedRowsOfDay(2)
open_reading_sheet == OpenRowsOfDay(1) \o OpenRowsOfDay(2)
StudentRow ==
  [phone_no |-> Student, eng_name |-> "Alan", day_of_training |-> 1,
   current_vocab_number |-> 0, current_question_number |-> 1,
   current_open_question_number |-> 1]
ClassmateRow ==
  [phone_no |-> Classmate, eng_name |-> "Bella", day_of_training |-> 1,
   current_vocab_number |-> 0, current_question_number |-> 2,
   current_open_question_number |-> 1]

(***************************************************************************)
(* The world a call of receive_message runs in: the mutable program state, *)
(* the replies and outcomes the environment will give, and the record of   *)
(* what the call has done so far.  After an exception is raised (and not   *)
(* caught) nothing more of the call runs.                                  *)
(***************************************************************************)
Emit(w, e) == [w EXCEPT !.log = Append(@, e)]
Raise(w, error) ==
  [w EXCEPT !.raised = TRUE, !.log = Append(@, [op |-> "raise", error |-> error])]

(***************************************************************************)
(* whatsapp_utils.py                                                       *)
(***************************************************************************)
\* send_whatsapp_message that lets a failed post end the call
SendRaisesOnFailure(w, phone_number, message) ==
  IF w.raised THEN w
  ELSE LET outcome == IF w.net = <<>> THEN "200" ELSE Head(w.net)
           w1 == [w EXCEPT
                    !.last_sent_messages = Put(@, phone_number, message),
                    !.net = IF @ = <<>> THEN @ ELSE Tail(@),
                    !.log = Append(@, [op |-> "send", to |-> phone_number,
                                       message |-> message,
                                       returned |-> (outcome = "200")])]
       IN IF outcome = "200" THEN w1 ELSE Raise(w1, "ConnectionError")
\* The text is stored before the post; the post's outcome only decides the
\* boolean returned, which no caller reads.
send_whatsapp_message(w, phone_number, message) ==
  IF w.raised THEN w
  ELSE LET outcome == IF w.net = <<>> THEN "200" ELSE Head(w.net)
       IN [w EXCEPT
             !.last_sent_messages = Put(@, phone_number, message),
             !.net = IF @ = <<>> THEN @ ELSE Tail(@),
             !.log = Append(@, [op |-> "send", to |-> phone_number,
                                message |-> message,
                                returned |-> (outcome = "200")])]

(***************************************************************************)
(* sheet_utils.py                                                          *)
(***************************************************************************)
PhoneRows(sheet, phone_number) ==
  {i \in DOMAIN sheet : sheet[i].phone_no = phone_number}
PhoneKnown(sheet, phone_number) == PhoneRows(sheet, phone_number) # {}
\* 1-based row index counting the header row: the first data row is row 2
get_row_index_by_phone(sheet, phone_number) ==
  1 + CHOOSE i \in PhoneRows(sheet, phone_number) :
        \A j \in PhoneRows(sheet, phone_number) : i <= j
\* sheet.get_all_records()[row_index - 2]
UserData(sheet, phone_number) ==
  sheet[get_row_index_by_phone(sheet, phone_number) - 1]
\* variant: the write always lands in the first data row
UpdateSheetFirstRow(sheet, phone_number, column, data) ==
  [sheet EXCEPT ![1] = [@ EXCEPT ![column] = data]]
update_sheet(sheet, phone_number, column, data) ==
  [sheet EXCEPT ![get_row_index_by_phone(sheet, phone_number) - 1] =
                   [@ EXCEPT ![column] = data]]

\* first row of the day with the given question id, as an option
QuestionRow(sheet, day, q_num) ==
  LET hits == {i \in DOMAIN sheet :
                 sheet[i].day_of_training = day /\ sheet[i].question_id = q_num}
  IN IF hits = {} THEN None
     ELSE Some(sheet[CHOOSE i \in hits : \A j \in hits : i <= j])
PassageRow(sheet, day) ==
  LET hits == {i \in DOMAIN sheet : sheet[i].day_of_training = day}
  IN IF hits = {} THEN None
     ELSE Some(sheet[CHOOSE i \in hits : \A j \in hits : i <= j])

\* None when no passage exists for the student's day (the code raises)
get_passage(sheet_user, sheet_comprehension, phone_number) ==
  LET row == PassageRow(sheet_comprehension,
                        UserData(sheet_user, phone_number).day_of_training)
  IN IF row = None THEN None ELSE Some(row[1].passage_text)
\* None when no question exists at the cursor (the code raises)
get_current_question(sheet_user, sheet_comprehension, phone_number) ==
  LET u == UserData(sheet_user, phone_number)
      row == QuestionRow(sheet_comprehension, u.day_of_training,
                         u.current_question_number)
  IN IF row = None THEN None ELSE Some(row[1].question_text)
get_current_answer(sheet_user, sheet_comprehension, phone_number) ==
  LET u == UserData(sheet_user, phone_number)
      row == QuestionRow(sheet_comprehension, u.day_of_training,
                         u.current_question_number)
  IN IF row = None THEN None ELSE Some(row[1].answer_text)
get_open_question(sheet_user, sheet_open_reading, phone_number) ==
  LET u == UserData(sheet_user, phone_number)
      row == QuestionRow(sheet_open_reading, u.day_of_training,
                         u.current_open_question_number)
  IN IF row = None THEN None ELSE Some(row[1].question_text)
get_open_question_objective(sheet_user, sheet_open_reading, phone_number) ==
  LET u == UserData(sheet_user, phone_number)
      row == QuestionRow(sheet_open_reading, u.day_of_training,
                         u.current_open_question_number)
  IN IF row = None THEN None ELSE Some(row[1].learning_objective)
get_open_question_ans(sheet_user, sheet_open_reading, phone_number) ==
  LET u == UserData(sheet_user, phone_number)
      row == QuestionRow(sheet_open_reading, u.day_of_training,
                         u.current_open_question_number)
  IN IF row = None THEN None ELSE Some(row[1].answer_text)

\* the day's vocab rows, then the row at the 0-based index, or None
get_current_vocab_row(sheet_user, sheet_vocab, phone_number) ==
  LET u == UserData(sheet_user, phone_number)
      vocab_data == SelectSeq(sheet_vocab, LAMBDA v : v.Day = u.day_of_training)
      vocab_index == u.current_vocab_number
  IN IF vocab_index >= Len(vocab_data) THEN None
     ELSE Some(vocab_data[vocab_index + 1])

\* read the cursor, write cursor + 1
AdvanceColumn(w, phone_number, column) ==
  IF w.raised THEN w
  ELSE IF ~PhoneKnown(w.user_sheet, phone_number) THEN Raise(w, "ValueError")
  ELSE LET current_number == UserData(w.user_sheet, phone_number)[column]
       IN [w EXCEPT
             !.user_sheet = update_sheet(@, phone_number, column, current_number + 1),
             !.log = Append(@, [op |-> "advance", column |-> column])]
advance_vocab_index(w, phone_number) ==
  AdvanceColumn(w, phone_number, "current_vocab_number")
\* advance_question_progress writing to the open-question column
AdvanceQuestionWrongColumn(w, phone_number) ==
  AdvanceColumn(w, phone_number, "current_open_question_number")
advance_question_progress(w, phone_number) ==
  AdvanceColumn(w, phone_number, "current_question_number")
advance_open_question_progress(w, phone_number) ==
  AdvanceColumn(w, phone_number, "current_open_question_number")

\* the student's English name, or None when the phone is not in the sheet
\* (the code raises ValueError)
\* advance_day_of_training that resets the open-question cursor as well
AdvanceDayResetsOpenToo(sheet_user, phone_number) ==
  LET current_number == UserData(sheet_user, phone_number).day_of_training
      s1 == update_sheet(sheet_user, phone_number, "day_of_training",
                         current_number + 1)
      s2 == update_sheet(s1, phone_number, "current_question_number", 1)
      s3 == update_sheet(s2, phone_number, "current_vocab_number", 0)
  IN update_sheet(s3, phone_number, "current_open_question_number", 1)

\* the sheet after the three updates (the phone number is in the sheet)
advance_day_of_training(sheet_user, phone_number) ==
  LET current_number == UserData(sheet_user, phone_number).day_of_training
      s1 == update_sheet(sheet_user, phone_number, "day_of_training",
                         current_number + 1)
      s2 == update_sheet(s1, phone_number, "current_question_number", 1)
  IN update_sheet(s2, phone_number, "current_vocab_number", 0)

get_student_name_by_phone(sheet_user, phone_number) ==
  IF PhoneKnown(sheet_user, phone_number)
  THEN Some(UserData(sheet_user, phone_number).eng_name) ELSE None

(***************************************************************************)
(* llm_utils.py: the parsers of the judge's reply, and the generated texts *)
(* (a text is what it was asked to be: its purpose, the item it is about   *)
(* and what the prompt tells the LLM to mention or withhold).              *)
(***************************************************************************)
\* "True", "False", or "ValueError" when neither marker is in the reply
evaluate_answer(reply) ==
  IF Contains(Lower(reply), "\"is_correct\": true") THEN "True"
  ELSE IF Contains(Lower(reply), "\"is_correct\": false") THEN "False"
  ELSE "ValueError"
is_student_answering_question(reply) ==
  Contains(Lower(reply), "\"answered\": true")
\* is_reply_relevant_to_learning that takes every reply without the
\* negative marker as relevant
RelevantUnlessDenied(reply) ==
  ~Contains(Lower(reply), "\"relevant\": false")
is_reply_relevant_to_learning(reply) ==
  Contains(Lower(reply), "\"relevant\": true")

greet_student(student_name) == [kind |-> "greet", name |-> student_name]
generate_answer_to_student_question(user_question) ==
  [kind |-> "answer_to_student_question"]
handle_irrelevant_input_with_llm(user_input) == [kind |-> "irrelevant_redirect"]
generate_question_message(question, student_name, prior_learning) ==
  [kind |-> "question_message", question |-> question,
   prior_learning |-> prior_learning]
\* give_hint_or_explanation whose second tier gives the answer away
HintRevealsAtSecondTier(user_reply, correct_answer, question, passage, attempt) ==
  IF attempt < 1 \/ attempt > 3 THEN None
  ELSE Some([kind |-> "hint_or_explanation", question |-> question,
             attempt |-> attempt,
             reveals |-> IF attempt >= 2 THEN Some(correct_answer) ELSE None])
\* None when the attempt is outside 1..3 (the code raises ValueError)
give_hint_or_explanation(user_reply, correct_answer, question, passage, attempt) ==
  IF attempt < 1 \/ attempt > 3 THEN None
  ELSE Some([kind |-> "hint_or_explanation", question |-> question,
             attempt |-> attempt,
             reveals |-> IF attempt = 3 THEN Some(correct_answer) ELSE None])
ask_why_correct(question_text, user_answer, passage) ==
  [kind |-> "ask_why_correct", question |-> question_text]
respond_to_reflection(reflection_text, question_text, correct_answer, passage) ==
  [kind |-> "respond_to_reflection", question |-> question_text,
   correct_answer |-> correct_answer]
ask_open_question(question) == [kind |-> "ask_open_question", question |-> question]
respond_to_open_answer(user_reply, question, learning_objectives, answer) ==
  [kind |-> "respond_to_open_answer", question |-> question,
   learning_objective |-> learning_objectives, answer |-> answer]
ask_vocab_meaning_question(vocab_row) ==
  [kind |-> "ask_vocab_meaning_question", word |-> vocab_row.Word]
give_vocab_correct_reply(vocab_row) ==
  [kind |-> "vocab_correct_reply", word |-> vocab_row.Word,
   meaning |-> vocab_row.ChineseExplaination]
\* None when the attempt is not 1 or 2 (the code raises ValueError)
give_vocab_hint_or_explanation(vocab_row, user_answer, attempt) ==
  IF attempt \notin {1, 2} THEN None
  ELSE Some([kind |-> "vocab_hint_or_explanation", word |-> vocab_row.Word,
             attempt |-> attempt,
             reveals |-> IF attempt = 1 THEN None
                         ELSE Some(vocab_row.ChineseExplaination)])

\* the fixed texts of the controllers
VocabAllDoneText == [kind |-> "vocab_all_done"]
VocabReentryText == [kind |-> "vocab_reentry"]
ReadingReentryText == [kind |-> "reading_reentry"]
RetryQuestionText(question) == [kind |-> "retry_question", question |-> question]
OpenReentryText == [kind |-> "open_reentry"]
OpenRedirectText == [kind |-> "open_redirect"]

(***************************************************************************)
(* vocab_session_controller.py                                             *)
(***************************************************************************)
\* session[field] = value on the stored session
SetVocabField(w, phone_number, field, value) ==
  [w EXCEPT !.vocab_sessions[phone_number][field] = value,
            !.log = Append(@, [op |-> "set", track |-> "vocab",
                               field |-> field, value |-> value])]
SetVocabSession(w, phone_number, session) ==
  [w EXCEPT !.vocab_sessions = Put(@, phone_number, session),
            !.log = Append(@, [op |-> "put", track |-> "vocab",
                               session |-> session])]
\* the session is left in the dict
KeepVocabSession(w, phone_number) == w

DelVocabSession(w, phone_number) ==
  IF phone_number \notin DOMAIN w.vocab_sessions THEN Raise(w, "KeyError")
  ELSE [w EXCEPT !.vocab_sessions = Del(@, phone_number),
                 !.log = Append(@, [op |-> "del", track |-> "vocab"])]

\* start_vocab_session that leaves a session it finds as it is and only
\* asks the question again
StartVocabKeepsSession(w0, phone_number) ==
  IF w0.raised THEN w0
  ELSE
  LET w == Emit(w0, [op |-> "call", fn |-> "start_vocab_session"]) IN
  IF ~PhoneKnown(w.user_sheet, phone_number) THEN Raise(w, "ValueError")
  ELSE
  LET vocab_row == get_current_vocab_row(w.user_sheet, vocab_sheet, phone_number) IN
  IF vocab_row = None
  THEN send_whatsapp_message(w, phone_number, VocabAllDoneText)
  ELSE
  IF w.llm.opening = "error" THEN Raise(w, "APIError")
  ELSE
  LET message == ask_vocab_meaning_question(vocab_row[1])
      w1 == IF phone_number \in DOMAIN w.vocab_sessions THEN w
            ELSE SetVocabSession(w, phone_number,
                                 [attempt |-> 1, last_vocab |-> vocab_row[1]])
  IN send_whatsapp_message(w1, phone_number, message)

start_vocab_session(w0, phone_number) ==
  IF w0.raised THEN w0
  ELSE
  LET w == Emit(w0, [op |-> "call", fn |-> "start_vocab_session"]) IN
  IF ~PhoneKnown(w.user_sheet, phone_number) THEN Raise(w, "ValueError")
  ELSE
  LET vocab_row == get_current_vocab_row(w.user_sheet, vocab_sheet, phone_number) IN
  IF vocab_row = None
  THEN send_whatsapp_message(w, phone_number, VocabAllDoneText)
  ELSE
  \* ask_vocab_meaning_question runs before the session is stored
  IF w.llm.opening = "error" THEN Raise(w, "APIError")
  ELSE
  LET message == ask_vocab_meaning_question(vocab_row[1])
      w1 == SetVocabSession(w, phone_number,
                            [attempt |-> 1, last_vocab |-> vocab_row[1]])
  IN send_whatsapp_message(w1, phone_number, message)

\* VocabCorrect that advances the cursor before it sends the praise
VocabCorrectAdvancesFirst(w, phone_number, vocab_row) ==
  LET msg == give_vocab_correct_reply(vocab_row)
      w1 == advance_vocab_index(w, phone_number)
      w2 == send_whatsapp_message(w1, phone_number, msg)
      w3 == DelVocabSession(w2, phone_number)
  IN start_vocab_session(w3, phone_number)

\* VocabCorrect that starts the next session before it moves the cursor
VocabCorrectChainsBeforeAdvance(w, phone_number, vocab_row) ==
  LET msg == give_vocab_correct_reply(vocab_row)
      w1 == send_whatsapp_message(w, phone_number, msg)
      w2 == DelVocabSession(w1, phone_number)
      w3 == start_vocab_session(w2, phone_number)
  IN advance_vocab_index(w3, phone_number)
\* the branch taken when the reply is judged correct
VocabCorrect(w, phone_number, vocab_row) ==
  LET msg == give_vocab_correct_reply(vocab_row)
      w1 == send_whatsapp_message(w, phone_number, msg)
      w2 == advance_vocab_index(w1, phone_number)
      w3 == DelVocabSession(w2, phone_number)
  IN start_vocab_session(w3, phone_number)

\* VocabIncorrect with the test of the attempt inverted
VocabIncorrectSwapped(w, phone_number, vocab_row, user_reply, attempt) ==
  IF attempt # 1
  THEN LET msg == give_vocab_hint_or_explanation(vocab_row, user_reply, 1)
           w1 == SetVocabField(w, phone_number, "attempt", 2)
       IN send_whatsapp_message(w1, phone_number, msg[1])
  ELSE LET msg == give_vocab_hint_or_explanation(vocab_row, user_reply, 2)
           w1 == advance_vocab_index(w, phone_number)
           w2 == DelVocabSession(w1, phone_number)
           w3 == send_whatsapp_message(w2, phone_number, msg[1])
       IN start_vocab_session(w3, phone_number)

\* VocabIncorrect without the chained start after the explanation
VocabIncorrectNoChain(w, phone_number, vocab_row, user_reply, attempt) ==
  IF attempt = 1
  THEN LET msg == give_vocab_hint_or_explanation(vocab_row, user_reply, 1)
           w1 == SetVocabField(w, phone_number, "attempt", 2)
       IN send_whatsapp_message(w1, phone_number, msg[1])
  ELSE LET msg == give_vocab_hint_or_explanation(vocab_row, user_reply, 2)
           w1 == advance_vocab_index(w, phone_number)
           w2 == DelVocabSession(w1, phone_number)
       IN send_whatsapp_message(w2, phone_number, msg[1])

\* VocabIncorrect whose first hint leaves the attempt counter at 1
VocabIncorrectKeepsAttempt(w, phone_number, vocab_row, user_reply, attempt) ==
  IF attempt = 1
  THEN LET msg == give_vocab_hint_or_explanation(vocab_row, user_reply, 1)
       IN send_whatsapp_message(w, phone_number, msg[1])
  ELSE LET msg == give_vocab_hint_or_explanation(vocab_row, user_reply, 2)
           w1 == advance_vocab_index(w, phone_number)
           w2 == DelVocabSession(w1, phone_number)
           w3 == send_whatsapp_message(w2, phone_number, msg[1])
       IN start_vocab_session(w3, phone_number)
\* the branch taken when the reply is judged incorrect
VocabIncorrect(w, phone_number, vocab_row, user_reply, attempt) ==
  IF attempt = 1
  THEN LET msg == give_vocab_hint_or_explanation(vocab_row, user_reply, 1)
           w1 == SetVocabField(w, phone_number, "attempt", 2)
       IN send_whatsapp_message(w1, phone_number, msg[1])
  ELSE LET msg == give_vocab_hint_or_explanation(vocab_row, user_reply, 2)
           w1 == advance_vocab_index(w, phone_number)
           w2 == DelVocabSession(w1, phone_number)
           w3 == send_whatsapp_message(w2, phone_number, msg[1])
       IN start_vocab_session(w3, phone_number)

\* handle_vocab_reply that starts a session when it finds none
VocabReplyStartsWhenNone(w0, phone_number, user_reply) ==
  IF w0.raised THEN w0
  ELSE
  LET w == Emit(w0, [op |-> "call", fn |-> "handle_vocab_reply"])
      session == Get(w.vocab_sessions, phone_number)
  IN
  IF session = None
  THEN start_vocab_session(
         send_whatsapp_message(w, phone_number, VocabReentryText), phone_number)
  ELSE
  LET vocab_row == session[1].last_vocab
      attempt == session[1].attempt
      is_correct == evaluate_answer(w.llm.is_correct)
      w1 == Emit(w, [op |-> "judge", fn |-> "evaluate_answer",
                     result |-> is_correct])
  IN
  IF is_correct = "ValueError" THEN Raise(w1, "ValueError")
  ELSE IF is_correct = "True" THEN VocabCorrect(w1, phone_number, vocab_row)
  ELSE VocabIncorrect(w1, phone_number, vocab_row, user_reply, attempt)
handle_vocab_reply(w0, phone_number, user_reply) ==
  IF w0.raised THEN w0
  ELSE
  LET w == Emit(w0, [op |-> "call", fn |-> "handle_vocab_reply"])
      session == Get(w.vocab_sessions, phone_number)
  IN
  IF session = None
  THEN send_whatsapp_message(w, phone_number, VocabReentryText)
  ELSE
  LET vocab_row == session[1].last_vocab
      attempt == session[1].attempt
      is_correct == evaluate_answer(w.llm.is_correct)
      w1 == Emit(w, [op |-> "judge", fn |-> "evaluate_answer",
                     result |-> is_correct])
  IN
  IF is_correct = "ValueError" THEN Raise(w1, "ValueError")
  ELSE IF is_correct = "True" THEN VocabCorrect(w1, phone_number, vocab_row)
  ELSE VocabIncorrect(w1, phone_number, vocab_row, user_reply, attempt)

(***************************************************************************)
(* reading_session_controller.py                                           *)
(***************************************************************************)
\* session[field] = value on the stored session
SetReadingField(w, phone_number, field, value) ==
  [w EXCEPT !.reading_sessions[phone_number][field] = value,
            !.log = Append(@, [op |-> "set", track |-> "closed",
                               field |-> field, value |-> value])]
SetReadingSession(w, phone_number, session) ==
  [w EXCEPT !.reading_sessions = Put(@, phone_number, session),
            !.log = Append(@, [op |-> "put", track |-> "closed",
                               session |-> session])]
DelReadingSession(w, phone_number) ==
  IF phone_number \notin DOMAIN w.reading_sessions THEN Raise(w, "KeyError")
  ELSE [w EXCEPT !.reading_sessions = Del(@, phone_number),
                 !.log = Append(@, [op |-> "del", track |-> "closed"])]

\* start_reading_session that keeps the attempt counter of a session it finds
StartReadingKeepsAttempt(w0, phone_number, prior_learning_arg) ==
  IF w0.raised THEN w0
  ELSE
  LET w == Emit(w0, [op |-> "call", fn |-> "start_reading_session",
                     prior_learning |-> prior_learning_arg])
  IN
  IF ~PhoneKnown(w.user_sheet, phone_number) THEN Raise(w, "ValueError")
  ELSE
  LET passage == get_passage(w.user_sheet, close_reading_sheet, phone_number)
      question == get_current_question(w.user_sheet, close_reading_sheet,
                                       phone_number)
      student_name == get_student_name_by_phone(w.user_sheet, phone_number)
      prior_learning ==
        IF prior_learning_arg # None /\ prior_learning_arg[1] # EmptyString
        THEN prior_learning_arg[1] ELSE EmptyString
  IN
  IF passage = None \/ question = None \/ student_name = None
  THEN Raise(w, "ValueError")
  ELSE IF w.llm.opening = "error" THEN Raise(w, "APIError")
  ELSE
  LET full_message ==
        generate_question_message(question[1], student_name[1], prior_learning)
      w1 == SetReadingSession(w, phone_number,
              [passage |-> passage[1], question |-> question[1],
               attempt |-> IF phone_number \in DOMAIN w.reading_sessions
                           THEN w.reading_sessions[phone_number].attempt ELSE 1,
               mode |-> "", last_user_answer |-> EmptyString])
  IN send_whatsapp_message(w1, phone_number, full_message)
\* prior_learning is an option: None, or the text handed over
start_reading_session(w0, phone_number, prior_learning_arg) ==
  IF w0.raised THEN w0
  ELSE
  LET w == Emit(w0, [op |-> "call", fn |-> "start_reading_session",
                     prior_learning |-> prior_learning_arg])
  IN
  IF ~PhoneKnown(w.user_sheet, phone_number) THEN Raise(w, "ValueError")
  ELSE
  LET passage == get_passage(w.user_sheet, close_reading_sheet, phone_number)
      question == get_current_question(w.user_sheet, close_reading_sheet,
                                       phone_number)
      student_name == get_student_name_by_phone(w.user_sheet, phone_number)
      \* prior_learning if prior_learning else ""
      prior_learning ==
        IF prior_learning_arg # None /\ prior_learning_arg[1] # EmptyString
        THEN prior_learning_arg[1] ELSE EmptyString
  IN
  IF passage = None \/ question = None \/ student_name = None
  THEN Raise(w, "ValueError")
  \* generate_question_message runs before the session is stored
  ELSE IF w.llm.opening = "error" THEN Raise(w, "APIError")
  ELSE
  LET full_message ==
        generate_question_message(question[1], student_name[1], prior_learning)
      w1 == SetReadingSession(w, phone_number,
              [passage |-> passage[1], question |-> question[1], attempt |-> 1,
               mode |-> "", last_user_answer |-> EmptyString])
  IN send_whatsapp_message(w1, phone_number, full_message)

\* ReadingReflection that chains into the next question without the note
ReadingReflectionDropsNote(w, phone_number, user_reply, session) ==
  LET reflection_reply == user_reply
      question == session.question
      correct_answer ==
        get_current_answer(w.user_sheet, close_reading_sheet, phone_number)
      passage == session.passage
  IN
  IF correct_answer = None THEN Raise(w, "ValueError")
  ELSE
  LET response == respond_to_reflection(reflection_reply, question,
                                        correct_answer[1], passage)
      w1 == send_whatsapp_message(w, phone_number, response)
      w2 == advance_question_progress(w1, phone_number)
      w3 == DelReadingSession(w2, phone_number)
  IN start_reading_session(w3, phone_number, None)

\* session mode "reflection": the reply is the reflection text
ReadingReflection(w, phone_number, user_reply, session) ==
  LET reflection_reply == user_reply
      question == session.question
      correct_answer ==
        get_current_answer(w.user_sheet, close_reading_sheet, phone_number)
      passage == session.passage
  IN
  IF correct_answer = None THEN Raise(w, "ValueError")
  ELSE
  LET response == respond_to_reflection(reflection_reply, question,
                                        correct_answer[1], passage)
      w1 == send_whatsapp_message(w, phone_number, response)
      w2 == advance_question_progress(w1, phone_number)
      w3 == DelReadingSession(w2, phone_number)
  IN start_reading_session(w3, phone_number, Some(reflection_reply))

\* ReadingIncorrect handing the last reply to the chained start as the
\* prior-learning note
ReadingIncorrectPassesReply(w, phone_number, user_reply, session, correct_answer) ==
  LET attempt == session.attempt
      question == session.question
      passage == session.passage
  IN
  IF attempt < 3
  THEN LET hint_msg == give_hint_or_explanation(user_reply, correct_answer,
                                                question, passage, attempt)
       IN IF hint_msg = None THEN Raise(w, "ValueError")
          ELSE
          LET w1 == SetReadingField(w, phone_number, "attempt",
                                   w.reading_sessions[phone_number].attempt + 1)
              w2 == send_whatsapp_message(w1, phone_number, hint_msg[1])
          IN send_whatsapp_message(w2, phone_number, RetryQuestionText(question))
  ELSE LET explanation == give_hint_or_explanation(user_reply, correct_answer,
                                                   question, passage, 3)
           w1 == send_whatsapp_message(w, phone_number, explanation[1])
           w2 == advance_question_progress(w1, phone_number)
           w3 == DelReadingSession(w2, phone_number)
       IN start_reading_session(w3, phone_number, Some(user_reply))

\* ReadingIncorrect with the hint tier test off by one (attempt <= 3)
ReadingIncorrectOffByOne(w, phone_number, user_reply, session, correct_answer) ==
  LET attempt == session.attempt
      question == session.question
      passage == session.passage
  IN
  IF attempt <= 3
  THEN LET hint_msg == give_hint_or_explanation(user_reply, correct_answer,
                                                question, passage, attempt)
       IN IF hint_msg = None THEN Raise(w, "ValueError")
          ELSE
          LET w1 == SetReadingField(w, phone_number, "attempt",
                                   w.reading_sessions[phone_number].attempt + 1)
              w2 == send_whatsapp_message(w1, phone_number, hint_msg[1])
          IN send_whatsapp_message(w2, phone_number, RetryQuestionText(question))
  ELSE LET explanation == give_hint_or_explanation(user_reply, correct_answer,
                                                   question, passage, 3)
           w1 == send_whatsapp_message(w, phone_number, explanation[1])
           w2 == advance_question_progress(w1, phone_number)
           w3 == DelReadingSession(w2, phone_number)
       IN start_reading_session(w3, phone_number, None)

\* ReadingIncorrect that resends the question before the hint
ReadingIncorrectResendsFirst(w, phone_number, user_reply, session, correct_answer) ==
  LET attempt == session.attempt
      question == session.question
      passage == session.passage
  IN
  IF attempt < 3
  THEN LET hint_msg == give_hint_or_explanation(user_reply, correct_answer,
                                                question, passage, attempt)
       IN IF hint_msg = None THEN Raise(w, "ValueError")
          ELSE
          LET w1 == SetReadingField(w, phone_number, "attempt",
                                   w.reading_sessions[phone_number].attempt + 1)
              w2 == send_whatsapp_message(w1, phone_number,
                                          RetryQuestionText(question))
          IN send_whatsapp_message(w2, phone_number, hint_msg[1])
  ELSE LET explanation == give_hint_or_explanation(user_reply, correct_answer,
                                                   question, passage, 3)
           w1 == send_whatsapp_message(w, phone_number, explanation[1])
           w2 == advance_question_progress(w1, phone_number)
           w3 == DelReadingSession(w2, phone_number)
       IN start_reading_session(w3, phone_number, None)

\* the branch taken when the reply is judged an attempt and incorrect
ReadingIncorrect(w, phone_number, user_reply, session, correct_answer) ==
  LET attempt == session.attempt
      question == session.question
      passage == session.passage
  IN
  IF attempt < 3
  THEN LET hint_msg == give_hint_or_explanation(user_reply, correct_answer,
                                                question, passage, attempt)
       IN IF hint_msg = None THEN Raise(w, "ValueError")
          ELSE
          LET w1 == SetReadingField(w, phone_number, "attempt",
                                   w.reading_sessions[phone_number].attempt + 1)
              w2 == send_whatsapp_message(w1, phone_number, hint_msg[1])
          IN send_whatsapp_message(w2, phone_number, RetryQuestionText(question))
  ELSE LET explanation == give_hint_or_explanation(user_reply, correct_answer,
                                                   question, passage, 3)
           w1 == send_whatsapp_message(w, phone_number, explanation[1])
           w2 == advance_question_progress(w1, phone_number)
           w3 == DelReadingSession(w2, phone_number)
       IN start_reading_session(w3, phone_number, None)

\* ReadingCorrect that counts the correct answer as one more attempt
ReadingCorrectCountsAttempt(w, phone_number, user_reply, session) ==
  LET why_msg == ask_why_correct(session.question, user_reply, session.passage)
      w1 == send_whatsapp_message(w, phone_number, why_msg)
      w2 == SetReadingField(w1, phone_number, "mode", "reflection")
      w3 == SetReadingField(w2, phone_number, "attempt",
                            w2.reading_sessions[phone_number].attempt + 1)
  IN SetReadingField(w3, phone_number, "last_user_answer", user_reply)

\* the branch taken when the reply is judged an attempt and correct
ReadingCorrect(w, phone_number, user_reply, session) ==
  LET why_msg == ask_why_correct(session.question, user_reply, session.passage)
      w1 == send_whatsapp_message(w, phone_number, why_msg)
      w2 == SetReadingField(w1, phone_number, "mode", "reflection")
  IN SetReadingField(w2, phone_number, "last_user_answer", user_reply)

\* ReadingStandard that starts the session again after answering a question
\* of the student (as the default fallback of the dispatcher does for vocab)
ReadingStandardRestarts(w, phone_number, user_reply, session) ==
  LET correct_answer ==
        get_current_answer(w.user_sheet, close_reading_sheet, phone_number)
  IN
  IF correct_answer = None THEN Raise(w, "ValueError")
  ELSE
  LET answering == is_student_answering_question(w.llm.answered)
      w1 == Emit(w, [op |-> "judge", fn |-> "is_student_answering_question",
                     result |-> answering])
  IN
  IF ~answering
  THEN LET relevant == is_reply_relevant_to_learning(w.llm.relevant)
           w2 == Emit(w1, [op |-> "judge", fn |-> "is_reply_relevant_to_learning",
                           result |-> relevant])
       IN IF relevant
          THEN start_reading_session(
                 send_whatsapp_message(w2, phone_number,
                   generate_answer_to_student_question(user_reply)),
                 phone_number, None)
          ELSE send_whatsapp_message(w2, phone_number,
                 handle_irrelevant_input_with_llm(user_reply))
  ELSE
  LET is_correct == evaluate_answer(w.llm.is_correct)
      w2 == Emit(w1, [op |-> "judge", fn |-> "evaluate_answer",
                      result |-> is_correct])
  IN
  IF is_correct = "ValueError" THEN Raise(w2, "ValueError")
  ELSE IF is_correct = "True"
  THEN ReadingCorrect(w2, phone_number, user_reply, session)
  ELSE ReadingIncorrect(w2, phone_number, user_reply, session, correct_answer[1])

\* ReadingStandard that answers an unreadable verdict with the off-topic text
ReadingStandardFallsBack(w, phone_number, user_reply, session) ==
  LET correct_answer ==
        get_current_answer(w.user_sheet, close_reading_sheet, phone_number)
  IN
  IF correct_answer = None THEN Raise(w, "ValueError")
  ELSE
  LET answering == is_student_answering_question(w.llm.answered)
      w1 == Emit(w, [op |-> "judge", fn |-> "is_student_answering_question",
                     result |-> answering])
  IN
  IF ~answering
  THEN LET relevant == is_reply_relevant_to_learning(w.llm.relevant)
           w2 == Emit(w1, [op |-> "judge", fn |-> "is_reply_relevant_to_learning",
                           result |-> relevant])
       IN IF relevant
          THEN send_whatsapp_message(w2, phone_number,
                 generate_answer_to_student_question(user_reply))
          ELSE send_whatsapp_message(w2, phone_number,
                 handle_irrelevant_input_with_llm(user_reply))
  ELSE
  LET is_correct == evaluate_answer(w.llm.is_correct)
      w2 == Emit(w1, [op |-> "judge", fn |-> "evaluate_answer",
                      result |-> is_correct])
  IN
  IF is_correct = "ValueError"
  THEN send_whatsapp_message(w2, phone_number,
         handle_irrelevant_input_with_llm(user_reply))
  ELSE IF is_correct = "True"
  THEN ReadingCorrect(w2, phone_number, user_reply, session)
  ELSE ReadingIncorrect(w2, phone_number, user_reply, session, correct_answer[1])
\* the standard question/answer logic of a session not in reflection mode
ReadingStandard(w, phone_number, user_reply, session) ==
  LET correct_answer ==
        get_current_answer(w.user_sheet, close_reading_sheet, phone_number)
  IN
  IF correct_answer = None THEN Raise(w, "ValueError")
  ELSE
  LET answering == is_student_answering_question(w.llm.answered)
      w1 == Emit(w, [op |-> "judge", fn |-> "is_student_answering_question",
                     result |-> answering])
  IN
  IF ~answering
  THEN LET relevant == is_reply_relevant_to_learning(w.llm.relevant)
           w2 == Emit(w1, [op |-> "judge", fn |-> "is_reply_relevant_to_learning",
                           result |-> relevant])
       IN IF relevant
          THEN send_whatsapp_message(w2, phone_number,
                 generate_answer_to_student_question(user_reply))
          ELSE send_whatsapp_message(w2, phone_number,
                 handle_irrelevant_input_with_llm(user_reply))
  ELSE
  LET is_correct == evaluate_answer(w.llm.is_correct)
      w2 == Emit(w1, [op |-> "judge", fn |-> "evaluate_answer",
                      result |-> is_correct])
  IN
  IF is_correct = "ValueError" THEN Raise(w2, "ValueError")
  ELSE IF is_correct = "True"
  THEN ReadingCorrect(w2, phone_number, user_reply, session)
  ELSE ReadingIncorrect(w2, phone_number, user_reply, session, correct_answer[1])

handle_reading_reply(w0, phone_number, user_reply) ==
  IF w0.raised THEN w0
  ELSE
  LET w == Emit(w0, [op |-> "call", fn |-> "handle_reading_reply"]) IN
  IF phone_number \notin DOMAIN w.reading_sessions
  THEN send_whatsapp_message(w, phone_number, ReadingReentryText)
  ELSE
  LET session == w.reading_sessions[phone_number] IN
  IF session.mode = "reflection"
  THEN ReadingReflection(w, phone_number, user_reply, session)
  ELSE ReadingStandard(w, phone_number, user_reply, session)

(***************************************************************************)
(* open_reading_session_controller.py                                      *)
(***************************************************************************)
SetOpenSession(w, phone_number, session) ==
  [w EXCEPT !.open_reading_sessions = Put(@, phone_number, session),
            !.log = Append(@, [op |-> "put", track |-> "open",
                               session |-> session])]
DelOpenSession(w, phone_number) ==
  IF phone_number \notin DOMAIN w.open_reading_sessions THEN Raise(w, "KeyError")
  ELSE [w EXCEPT !.open_reading_sessions = Del(@, phone_number),
                 !.log = Append(@, [op |-> "del", track |-> "open"])]

start_open_reading_session(w0, phone_number) ==
  IF w0.raised THEN w0
  ELSE
  LET w == Emit(w0, [op |-> "call", fn |-> "start_open_reading_session"]) IN
  IF ~PhoneKnown(w.user_sheet, phone_number) THEN Raise(w, "ValueError")
  ELSE
  LET question == get_open_question(w.user_sheet, open_reading_sheet, phone_number)
  IN
  IF question = None THEN Raise(w, "ValueError")
  ELSE
  \* the session is stored before ask_open_question runs
  LET w1 == SetOpenSession(w, phone_number, [question |-> question[1]])
      message == ask_open_question(question[1])
  IN IF w.llm.opening = "error" THEN Raise(w1, "APIError")
     ELSE send_whatsapp_message(w1, phone_number, message)

\* OpenRelevant that moves the cursor before it sends the response
OpenRelevantAdvancesFirst(w, phone_number, user_reply, question) ==
  LET learning_objective ==
        get_open_question_objective(w.user_sheet, open_reading_sheet, phone_number)
      answer == get_open_question_ans(w.user_sheet, open_reading_sheet, phone_number)
  IN
  IF learning_objective = None \/ answer = None THEN Raise(w, "ValueError")
  ELSE
  LET reply == respond_to_open_answer(user_reply, question,
                                      learning_objective[1], answer[1])
      w1 == advance_open_question_progress(w, phone_number)
      w2 == send_whatsapp_message(w1, phone_number, reply)
      w3 == DelOpenSession(w2, phone_number)
  IN start_open_reading_session(w3, phone_number)
\* the reply was judged relevant: respond, advance, chain
OpenRelevant(w, phone_number, user_reply, question) ==
  LET learning_objective ==
        get_open_question_objective(w.user_sheet, open_reading_sheet, phone_number)
      answer == get_open_question_ans(w.user_sheet, open_reading_sheet, phone_number)
  IN
  IF learning_objective = None \/ answer = None THEN Raise(w, "ValueError")
  ELSE
  LET reply == respond_to_open_answer(user_reply, question,
                                      learning_objective[1], answer[1])
      w1 == send_whatsapp_message(w, phone_number, reply)
      w2 == advance_open_question_progress(w1, phone_number)
      w3 == DelOpenSession(w2, phone_number)
  IN start_open_reading_session(w3, phone_number)

\* handle_open_reading_reply that drops the session after the redirect
OpenReplyRedirectDropsSession(w0, phone_number, user_reply) ==
  IF w0.raised THEN w0
  ELSE
  LET w == Emit(w0, [op |-> "call", fn |-> "handle_open_reading_reply"]) IN
  IF phone_number \notin DOMAIN w.open_reading_sessions
  THEN send_whatsapp_message(w, phone_number, OpenReentryText)
  ELSE
  LET question == w.open_reading_sessions[phone_number].question
      relevant == is_reply_relevant_to_learning(w.llm.relevant)
      w1 == Emit(w, [op |-> "judge", fn |-> "is_reply_relevant_to_learning",
                     result |-> relevant])
  IN
  IF ~relevant
  THEN DelOpenSession(send_whatsapp_message(w1, phone_number, OpenRedirectText),
                      phone_number)
  ELSE OpenRelevant(w1, phone_number, user_reply, question)
handle_open_reading_reply(w0, phone_number, user_reply) ==
  IF w0.raised THEN w0
  ELSE
  LET w == Emit(w0, [op |-> "call", fn |-> "handle_open_reading_reply"]) IN
  IF phone_number \notin DOMAIN w.open_reading_sessions
  THEN send_whatsapp_message(w, phone_number, OpenReentryText)
  ELSE
  LET question == w.open_reading_sessions[phone_number].question
      relevant == is_reply_relevant_to_learning(w.llm.relevant)
      w1 == Emit(w, [op |-> "judge", fn |-> "is_reply_relevant_to_learning",
                     result |-> relevant])
  IN
  IF ~relevant
  THEN send_whatsapp_message(w1, phone_number, OpenRedirectText)
  ELSE OpenRelevant(w1, phone_number, user_reply, question)

(***************************************************************************)
(* whatsapp_webhook.py                                                     *)
(***************************************************************************)
\* data["message"].strip().lower()
Normalize(raw) == Lower(Strip(raw))

\* Route with the closed-reading check placed before the open-reading check
RouteClosedFirst(open_sessions, closed_sessions, phone_number, message) ==
  IF Contains(message, "start") THEN "start"
  ELSE IF Contains(message, "vocab") THEN "vocab"
  ELSE IF Contains(message, "reading") THEN "reading"
  ELSE IF Contains(message, "warm up") THEN "warm up"
  ELSE IF phone_number \in DOMAIN closed_sessions THEN "closed reply"
  ELSE IF phone_number \in DOMAIN open_sessions THEN "open reply"
  ELSE "default"

\* Route with the vocab test placed before the start test
RouteVocabFirst(open_sessions, closed_sessions, phone_number, message) ==
  IF Contains(message, "vocab") THEN "vocab"
  ELSE IF Contains(message, "start") THEN "start"
  ELSE IF Contains(message, "reading") THEN "reading"
  ELSE IF Contains(message, "warm up") THEN "warm up"
  ELSE IF phone_number \in DOMAIN open_sessions THEN "open reply"
  ELSE IF phone_number \in DOMAIN closed_sessions THEN "closed reply"
  ELSE "default"
\* The if/elif chain of receive_message, down to the default fallback:
\* which branch a (normalized) message takes in the given session maps.
Route(open_sessions, closed_sessions, phone_number, message) ==
  IF Contains(message, "start") THEN "start"
  ELSE IF Contains(message, "vocab") THEN "vocab"
  ELSE IF Contains(message, "reading") THEN "reading"
  ELSE IF Contains(message, "warm up") THEN "warm up"
  ELSE IF phone_number \in DOMAIN open_sessions THEN "open reply"
  ELSE IF phone_number \in DOMAIN closed_sessions THEN "closed reply"
  ELSE "default"

\* DefaultFallback that answers a relevant question without starting the
\* vocabulary session again
DefaultFallbackNoRestart(w, phone_number, message) ==
  LET question_prompt ==
        IF phone_number \in DOMAIN w.last_sent_messages
        THEN Some(w.last_sent_messages[phone_number]) ELSE Some(EmptyString)
      answering == is_student_answering_question(w.llm.answered)
      w1 == Emit(w, [op |-> "judge", fn |-> "is_student_answering_question",
                     result |-> answering, prompt |-> question_prompt])
  IN
  IF answering THEN handle_vocab_reply(w1, phone_number, message)
  ELSE
  LET relevant == is_reply_relevant_to_learning(w.llm.relevant)
      w2 == Emit(w1, [op |-> "judge", fn |-> "is_reply_relevant_to_learning",
                      result |-> relevant, prompt |-> question_prompt])
  IN
  IF relevant
  THEN send_whatsapp_message(w2, phone_number,
                             generate_answer_to_student_question(message))
  ELSE send_whatsapp_message(w2, phone_number,
                             handle_irrelevant_input_with_llm(message))

\* DefaultFallback that starts the vocabulary session after the off-topic
\* redirect as well
DefaultFallbackAlwaysRestarts(w, phone_number, message) ==
  LET question_prompt ==
        IF phone_number \in DOMAIN w.last_sent_messages
        THEN Some(w.last_sent_messages[phone_number]) ELSE Some(EmptyString)
      answering == is_student_answering_question(w.llm.answered)
      w1 == Emit(w, [op |-> "judge", fn |-> "is_student_answering_question",
                     result |-> answering, prompt |-> question_prompt])
  IN
  IF answering THEN handle_vocab_reply(w1, phone_number, message)
  ELSE
  LET relevant == is_reply_relevant_to_learning(w.llm.relevant)
      w2 == Emit(w1, [op |-> "judge", fn |-> "is_reply_relevant_to_learning",
                      result |-> relevant, prompt |-> question_prompt])
      response == IF relevant
                  THEN generate_answer_to_student_question(message)
                  ELSE handle_irrelevant_input_with_llm(message)
      w3 == send_whatsapp_message(w2, phone_number, response)
  IN start_vocab_session(w3, phone_number)

\* 3. Default fallback: the message against the last text sent to the student
\* (question_prompt is an option: the text, or the empty string)
DefaultFallback(w, phone_number, message) ==
  LET question_prompt ==
        IF phone_number \in DOMAIN w.last_sent_messages
        THEN Some(w.last_sent_messages[phone_number]) ELSE Some(EmptyString)
      answering == is_student_answering_question(w.llm.answered)
      w1 == Emit(w, [op |-> "judge", fn |-> "is_student_answering_question",
                     result |-> answering, prompt |-> question_prompt])
  IN
  IF answering THEN handle_vocab_reply(w1, phone_number, message)
  ELSE
  LET relevant == is_reply_relevant_to_learning(w.llm.relevant)
      w2 == Emit(w1, [op |-> "judge", fn |-> "is_reply_relevant_to_learning",
                      result |-> relevant, prompt |-> question_prompt])
  IN
  IF relevant
  THEN LET response == generate_answer_to_student_question(message)
           w3 == send_whatsapp_message(w2, phone_number, response)
       IN start_vocab_session(w3, phone_number)
  ELSE send_whatsapp_message(w2, phone_number,
                             handle_irrelevant_input_with_llm(message))

receive_message(w, phone_number, raw) ==
  LET message == Normalize(raw)
      student_name == get_student_name_by_phone(w.user_sheet, phone_number)
  IN
  IF student_name = None THEN Raise(w, "ValueError")
  ELSE
  LET branch == Route(w.open_reading_sessions, w.reading_sessions,
                      phone_number, message)
  IN
  CASE branch = "start" ->
         send_whatsapp_message(w, phone_number, greet_student(student_name[1]))
    [] branch = "vocab" -> start_vocab_session(w, phone_number)
    [] branch = "reading" -> start_reading_session(w, phone_number, None)
    [] branch = "warm up" -> start_open_reading_session(w, phone_number)
    [] branch = "open reply" -> handle_open_reading_reply(w, phone_number, message)
    [] branch = "closed reply" -> handle_reading_reply(w, phone_number, message)
    [] OTHER -> DefaultFallback(w, phone_number, message)

(***************************************************************************)
(* The state machine.                                                      *)
(***************************************************************************)
\* the world a call starts in: the current state, the environment's answers
World(llm, net) ==
  [user_sheet |-> user_sheet,
   vocab_sessions |-> vocab_sessions,
   reading_sessions |-> reading_sessions,
   open_reading_sessions |-> open_reading_sessions,
   last_sent_messages |-> last_sent_messages,
   llm |-> llm, net |-> net, log |-> <<>>, raised |-> FALSE]

\* what the call found for its phone number before it ran
Before(phone_number) ==
  [vocab |-> Get(vocab_sessions, phone_number),
   closed |-> Get(reading_sessions, phone_number),
   open |-> Get(open_reading_sessions, phone_number),
   last_sent |-> Get(last_sent_messages, phone_number),
   user |-> IF PhoneKnown(user_sheet, phone_number)
            THEN Some(UserData(user_sheet, phone_number)) ELSE None]

NoTurn ==
  [phone |-> Student, message |-> EmptyString,
   before |-> [vocab |-> None, closed |-> None, open |-> None,
               last_sent |-> None, user |-> Some(StudentRow)],
   log |-> <<>>, raised |-> FALSE]

\* the requests the server can hold; none has arrived
Requests == 1..MaxInFlight
NoRequest == [stage |-> "none"]

\* the program state after the modules are loaded, for a given user sheet
Loaded(sheet) ==
  [user_sheet |-> sheet,
   vocab_sessions |-> EmptyDict,
   reading_sessions |-> EmptyDict,
   open_reading_sessions |-> EmptyDict,
   last_sent_messages |-> EmptyDict]

Init ==
  /\ user_sheet = <<StudentRow>>
  /\ vocab_sessions = EmptyDict
  /\ reading_sessions = EmptyDict
  /\ open_reading_sessions = EmptyDict
  /\ last_sent_messages = EmptyDict
  /\ turn = NoTurn
  /\ solo = [p \in {Student} |-> Loaded(<<StudentRow>>)]
  /\ tasks = [r \in Requests |-> NoRequest]

\* the branch of receive_message a raw message takes in the current state
Branch(phone_number, raw) ==
  IF PhoneKnown(user_sheet, phone_number)
  THEN Route(open_reading_sessions, reading_sessions, phone_number, Normalize(raw))
  ELSE "unknown"

\* the state a call of receive_message leaves, and the record of the call
Commit(phone_number, raw, w) ==
  /\ user_sheet' = w.user_sheet
  /\ vocab_sessions' = w.vocab_sessions
  /\ reading_sessions' = w.reading_sessions
  /\ open_reading_sessions' = w.open_reading_sessions
  /\ last_sent_messages' = w.last_sent_messages
  /\ turn' = [phone |-> phone_number, message |-> Normalize(raw),
              before |-> Before(phone_number), log |-> w.log,
              raised |-> w.raised]

\* one call of receive_message
Receive(phone_number, raw, llm, net) ==
  \E w \in {receive_message(World(llm, net), phone_number, raw)} :
    /\ Commit(phone_number, raw, w)
    /\ UNCHANGED <<solo, tasks>>

UnknownStudent ==
  \E raw \in StrangerMessages :
    /\ Branch(Stranger, raw) = "unknown"
    /\ Receive(Stranger, raw, NoLLM, <<>>)
GreetCommand ==
  \E raw \in RawMessages :
    /\ Branch(Student, raw) = "start"
    /\ \E net \in NetOutcomes : Receive(Student, raw, NoLLM, net)
VocabCommand ==
  \E raw \in RawMessages :
    /\ Branch(Student, raw) = "vocab"
    /\ \E net \in NetOutcomes : Receive(Student, raw, NoLLM, net)
ReadingCommand ==
  \E raw \in RawMessages :
    /\ Branch(Student, raw) = "reading"
    /\ \E net \in NetOutcomes : Receive(Student, raw, NoLLM, net)
WarmUpCommand ==
  \E raw \in RawMessages :
    /\ Branch(Student, raw) = "warm up"
    /\ \E net \in NetOutcomes : Receive(Student, raw, NoLLM, net)
OpenReply ==
  \E raw \in RawMessages :
    /\ Branch(Student, raw) = "open reply"
    /\ \E llm \in RelevanceScripts, net \in NetOutcomes :
         Receive(Student, raw, llm, net)
ClosedReply ==
  \E raw \in RawMessages :
    /\ Branch(Student, raw) = "closed reply"
    /\ \E llm \in ReplyScripts, net \in NetOutcomes :
         Receive(Student, raw, llm, net)
DefaultReply ==
  \E raw \in RawMessages :
    /\ Branch(Student, raw) = "default"
    /\ \E llm \in ReplyScripts, net \in NetOutcomes :
         Receive(Student, raw, llm, net)

Next ==
  \/ UnknownStudent
  \/ GreetCommand
  \/ VocabCommand
  \/ ReadingCommand
  \/ WarmUpCommand
  \/ OpenReply
  \/ ClosedReply
  \/ DefaultReply

Spec == Init /\ [][Next]_vars

\* the classification replies a branch of receive_message may consume
ScriptsOf(branch) ==
  CASE branch \in {"open reply"} -> RelevanceScripts
    [] branch \in {"closed reply", "default"} -> ReplyScripts
    [] OTHER -> {NoLLM}

\* the call ended in the exception of the opening-question request
OpeningFailed(w) ==
  /\ w.raised
  /\ w.log[Len(w.log)] = [op |-> "raise", error |-> "APIError"]

\* a call of receive_message in which a start (by command or chained) asks
\* the LLM for the opening question and the request raises
OpeningFails ==
  \E raw \in RawMessages :
    \E s \in ScriptsOf(Branch(Student, raw)), net \in NetOutcomes :
      \E w \in {receive_message(World([s EXCEPT !.opening = "error"], net),
                                 Student, raw)} :
        /\ OpeningFailed(w)
        /\ Commit(Student, raw, w)
        /\ UNCHANGED <<solo, tasks>>

NextOpeningFails ==
  \/ UnknownStudent
  \/ GreetCommand
  \/ VocabCommand
  \/ ReadingCommand
  \/ WarmUpCommand
  \/ OpenReply
  \/ ClosedReply
  \/ DefaultReply
  \/ OpeningFails

SpecOpeningFails == Init /\ [][NextOpeningFails]_vars

\* advance_day_of_training is called by no handler: it is run on the user
\* sheet between two inbound messages
AdvanceDay ==
  /\ UserData(user_sheet, Student).day_of_training < MaxDay
  /\ user_sheet' = advance_day_of_training(user_sheet, Student)
  /\ turn' = NoTurn
  /\ UNCHANGED <<vocab_sessions, reading_sessions, open_reading_sessions,
                 last_sent_messages, solo, tasks>>

NextDayAdvance ==
  \/ UnknownStudent
  \/ GreetCommand
  \/ VocabCommand
  \/ ReadingCommand
  \/ WarmUpCommand
  \/ OpenReply
  \/ ClosedReply
  \/ DefaultReply
  \/ AdvanceDay

SpecDayAdvance == Init /\ [][NextDayAdvance]_vars

(***************************************************************************)
(* Two registered students.  Their messages are handled one whole call at  *)
(* a time, in any order.  Next to the shared program state, solo[p] is the *)
(* state of a run that is given the messages of student p only, with the   *)
(* same replies and outcomes.                                              *)
(***************************************************************************)
Class == {Student, Classmate}
ClassSheet == <<StudentRow, ClassmateRow>>
ClassMessages(phone_number) ==
  IF phone_number = Student
  THEN { <<"VOCAB">>, <<"reading">>, <<" ", "because", " ">> }
  ELSE { <<"VOCAB">>, <<" ", "because", " ">> }
\* every post is delivered
AllDelivered == { <<"200", "200">> }

InitClass ==
  /\ user_sheet = ClassSheet
  /\ vocab_sessions = EmptyDict
  /\ reading_sessions = EmptyDict
  /\ open_reading_sessions = EmptyDict
  /\ last_sent_messages = EmptyDict
  /\ turn = NoTurn
  /\ solo = [p \in Class |-> Loaded(ClassSheet)]
  /\ tasks = [r \in Requests |-> NoRequest]

\* the world of the run that sees the messages of one student only
SoloWorld(phone_number, llm, net) ==
  [user_sheet |-> solo[phone_number].user_sheet,
   vocab_sessions |-> solo[phone_number].vocab_sessions,
   reading_sessions |-> solo[phone_number].reading_sessions,
   open_reading_sessions |-> solo[phone_number].open_reading_sessions,
   last_sent_messages |-> solo[phone_number].last_sent_messages,
   llm |-> llm, net |-> net, log |-> <<>>, raised |-> FALSE]
\* the program state a call leaves
StateOf(w) ==
  [user_sheet |-> w.user_sheet,
   vocab_sessions |-> w.vocab_sessions,
   reading_sessions |-> w.reading_sessions,
   open_reading_sessions |-> w.open_reading_sessions,
   last_sent_messages |-> w.last_sent_messages]

\* one call of receive_message for a student of the class, handled on the
\* shared state and, with the same replies, on that student's own run
ClassReceive(phone_number) ==
  \E raw \in ClassMessages(phone_number) :
    \E llm \in ScriptsOf(Branch(phone_number, raw)), net \in AllDelivered :
      \E w \in {receive_message(World(llm, net), phone_number, raw)},
         v \in {receive_message(SoloWorld(phone_number, llm, net),
                                 phone_number, raw)} :
        /\ Commit(phone_number, raw, w)
        /\ solo' = [solo EXCEPT ![phone_number] = StateOf(v)]
        /\ UNCHANGED tasks
StudentMessage == ClassReceive(Student)
ClassmateMessage == ClassReceive(Classmate)

NextClass ==
  \/ StudentMessage
  \/ ClassmateMessage

SpecClass == InitClass /\ [][NextClass]_vars

(***************************************************************************)
(* The event loop.  A request starts a coroutine of receive_message, which *)
(* is suspended at `await request.json()`, its only await.  The loop       *)
(* resumes a suspended coroutine only when no other coroutine is running,  *)
(* and a running coroutine keeps the loop until it awaits or returns.  The *)
(* body is run one effect at a time: the effects are those of the call in  *)
(* the state it is resumed in, in the order the call has them.             *)
(***************************************************************************)
LoopMessages == { <<"VOCAB">>, <<"reading">>, <<" ", "because", " ">> }

Suspended == [stage |-> "awaiting"]
Running == {r \in Requests : tasks[r].stage = "body"}

\* variant: the loop resumes a suspended coroutine at any time, as it could
\* if the body awaited between its effects
ResumeAnytime(r) == TRUE
\* the loop can resume coroutine r only when no coroutine is running
CanResume(r) == Running = {}

\* a request arrives: its coroutine runs up to the await
Arrive(r) ==
  /\ tasks[r].stage = "none"
  /\ tasks' = [tasks EXCEPT ![r] = Suspended]
  /\ UNCHANGED <<user_sheet, vocab_sessions, reading_sessions,
                 open_reading_sessions, last_sent_messages, turn, solo>>

\* the request is read and the loop resumes its coroutine
Resume(r) ==
  /\ tasks[r].stage = "awaiting"
  /\ CanResume(r)
  /\ \E raw \in LoopMessages :
       \E llm \in ScriptsOf(Branch(Student, raw)), net \in AllDelivered :
         \E w \in {receive_message(World(llm, net), Student, raw)} :
           tasks' = [tasks EXCEPT ![r] =
                       [stage |-> "body", phone |-> Student,
                        message |-> Normalize(raw), found |-> Before(Student),
                        log |-> w.log, raised |-> w.raised, pc |-> 0,
                        leaves |-> StateOf(w)]]
  /\ UNCHANGED <<user_sheet, vocab_sessions, reading_sessions,
                 open_reading_sessions, last_sent_messages, turn, solo>>

\* what one effect of a call for phone_number does to the program state
Effect(e, phone_number) ==
  /\ user_sheet' =
       IF e.op = "advance"
       THEN update_sheet(user_sheet, phone_number, e.column,
                         UserData(user_sheet, phone_number)[e.column] + 1)
       ELSE user_sheet
  /\ last_sent_messages' =
       IF e.op = "send" THEN Put(last_sent_messages, e.to, e.message)
       ELSE last_sent_messages
  /\ vocab_sessions' =
       IF e.op \in {"put", "del", "set"} /\ e.track = "vocab"
       THEN CASE e.op = "put" -> Put(vocab_sessions, phone_number, e.session)
              [] e.op = "del" -> Del(vocab_sessions, phone_number)
              [] e.op = "set" ->
                   [vocab_sessions EXCEPT ![phone_number][e.field] = e.value]
       ELSE vocab_sessions
  /\ reading_sessions' =
       IF e.op \in {"put", "del", "set"} /\ e.track = "closed"
       THEN CASE e.op = "put" -> Put(reading_sessions, phone_number, e.session)
              [] e.op = "del" -> Del(reading_sessions, phone_number)
              [] e.op = "set" ->
                   [reading_sessions EXCEPT ![phone_number][e.field] = e.value]
       ELSE reading_sessions
  /\ open_reading_sessions' =
       IF e.op \in {"put", "del"} /\ e.track = "open"
       THEN CASE e.op = "put" ->
                   Put(open_reading_sessions, phone_number, e.session)
              [] e.op = "del" -> Del(open_reading_sessions, phone_number)
       ELSE open_reading_sessions

\* the running coroutine does its next effect
Step(r) ==
  /\ tasks[r].stage = "body"
  /\ tasks[r].pc < Len(tasks[r].log)
  /\ Effect(tasks[r].log[tasks[r].pc + 1], tasks[r].phone)
  /\ tasks' = [tasks EXCEPT ![r].pc = @ + 1]
  /\ UNCHANGED <<turn, solo>>

\* the coroutine returns (or its exception is turned into the response)
Return(r) ==
  /\ tasks[r].stage = "body"
  /\ tasks[r].pc = Len(tasks[r].log)
  /\ turn' = [phone |-> tasks[r].phone, message |-> tasks[r].message,
              before |-> tasks[r].found, log |-> tasks[r].log,
              raised |-> tasks[r].raised]
  /\ tasks' = [tasks EXCEPT ![r] = NoRequest]
  /\ UNCHANGED <<user_sheet, vocab_sessions, reading_sessions,
                 open_reading_sessions, last_sent_messages, solo>>

NextLoop ==
  \E r \in Requests :
    \/ Arrive(r)
    \/ Resume(r)
    \/ Step(r)
    \/ Return(r)

SpecLoop == Init /\ [][NextLoop]_vars

(***************************************************************************)
(* Reply handlers on a session whose attempt counter is out of range.  The *)
(* handlers read the counter from the module-level session dicts, which    *)
(* any importer can write; the starts and the handlers themselves only     *)
(* ever store 1..2 (vocabulary) and 1..3 (closed reading).  Under          *)
(* SpecAttemptRange the first call finds a session, on the item at the     *)
(* student's cursor, with any counter of 0..MaxAttemptValue.               *)
(***************************************************************************)
AttemptValues == 0..MaxAttemptValue

InitAnyAttempt ==
  /\ user_sheet = <<StudentRow>>
  /\ open_reading_sessions = EmptyDict
  /\ turn = NoTurn
  /\ solo = [p \in {Student} |-> Loaded(<<StudentRow>>)]
  /\ tasks = [r \in Requests |-> NoRequest]
  /\ \E attempt \in AttemptValues :
       \/ /\ vocab_sessions =
               Put(EmptyDict, Student,
                   [attempt |-> attempt,
                    last_vocab |-> get_current_vocab_row(
                                     <<StudentRow>>, vocab_sheet, Student)[1]])
          /\ reading_sessions = EmptyDict
          /\ last_sent_messages =
               Put(EmptyDict, Student,
                   ask_vocab_meaning_question(
                     get_current_vocab_row(<<StudentRow>>, vocab_sheet, Student)[1]))
       \/ /\ vocab_sessions = EmptyDict
          /\ reading_sessions =
               Put(EmptyDict, Student,
                   [passage |-> get_passage(<<StudentRow>>, close_reading_sheet,
                                            Student)[1],
                    question |-> get_current_question(
                                   <<StudentRow>>, close_reading_sheet, Student)[1],
                    attempt |-> attempt, mode |-> "",
                    last_user_answer |-> EmptyString])
          /\ last_sent_messages =
               Put(EmptyDict, Student,
                   generate_question_message(
                     get_current_question(<<StudentRow>>, close_reading_sheet,
                                          Student)[1],
                     StudentRow.eng_name, EmptyString))

SpecAttemptRange == InitAnyAttempt /\ [][Next]_vars

(***************************************************************************)
(* Messages that hold several command keywords.  In each of them the       *)
(* keyword that is tested first in receive_message comes last in the text. *)
(***************************************************************************)
MixedMessages ==
  { <<"VOCAB", "start">>, <<"reading", "VOCAB">>, <<"Warm up", "reading">>,
    <<"Warm up", "reading", "VOCAB", "start">> }

MixedCommand ==
  \E raw \in MixedMessages :
    /\ Branch(Student, raw) \in {"start", "vocab", "reading", "warm up"}
    /\ \E net \in NetOutcomes : Receive(Student, raw, NoLLM, net)

NextMixed ==
  \/ UnknownStudent
  \/ GreetCommand
  \/ VocabCommand
  \/ ReadingCommand
  \/ WarmUpCommand
  \/ OpenReply
  \/ ClosedReply
  \/ DefaultReply
  \/ MixedCommand

SpecMixed == Init /\ [][NextMixed]_vars

(***************************************************************************)
(* A judge whose replies to the intent and the relevance classification    *)
(* never hold a marker of that classification: free text, an empty reply,  *)
(* or the marker of another classification.                                *)
(***************************************************************************)
UnparseableReplies == { <<"sorry">>, <<>>, <<"\"is_correct\": True">> }
UnparseableScripts ==
  {[NoLLM EXCEPT !.answered = a, !.relevant = r] :
     a \in UnparseableReplies, r \in UnparseableReplies}

UnparseableReply ==
  \E raw \in RawMessages :
    /\ Branch(Student, raw) \in {"open reply", "closed reply", "default"}
    /\ \E llm \in UnparseableScripts, net \in NetOutcomes :
         Receive(Student, raw, llm, net)

NextUnparseable ==
  \/ GreetCommand
  \/ VocabCommand
  \/ ReadingCommand
  \/ WarmUpCommand
  \/ UnparseableReply

SpecUnparseable == Init /\ [][NextUnparseable]_vars

(***************************************************************************)
(* Reading the record of the last call.                                    *)
(***************************************************************************)
Keywords == {"start", "vocab", "reading", "warm up"}
KeywordsIn(message) == {k \in Keywords : Contains(message, k)}

\* a call of receive_message for a registered student has been made
Handled == turn.log # <<>> /\ turn.before.user # None
\* ... with a message that holds no command keyword
CommandFree == Handled /\ KeywordsIn(turn.message) = {}
\* ... with a message that holds exactly the command keyword k
Commanded(k) == Handled /\ KeywordsIn(turn.message) = {k}

Called(fn) ==
  \E i \in DOMAIN turn.log : turn.log[i].op = "call" /\ turn.log[i].fn = fn
Judged(fn, result) ==
  \E i \in DOMAIN turn.log :
    turn.log[i].op = "judge" /\ turn.log[i].fn = fn /\ turn.log[i].result = result
\* the texts handed to the sender during the call, in order
Sent ==
  LET sends == SelectSeq(turn.log, LAMBDA e : e.op = "send")
  IN [i \in DOMAIN sends |-> sends[i].message]
\* the operations of the call, in order
Ops == [i \in DOMAIN turn.log |-> turn.log[i].op]
\* the operations after the judge's verdict on the answer
OpsAfterEvaluation ==
  LET marks == {i \in DOMAIN turn.log :
                  turn.log[i].op = "judge" /\ turn.log[i].fn = "evaluate_answer"}
      last == CHOOSE i \in marks : \A j \in marks : j <= i
  IN SubSeq(Ops, last + 1, Len(Ops))
\* the operations after the entry into fn
OpsAfterCall(fn) ==
  LET marks == {i \in DOMAIN turn.log :
                  turn.log[i].op = "call" /\ turn.log[i].fn = fn}
      last == CHOOSE i \in marks : \A j \in marks : j <= i
  IN SubSeq(Ops, last + 1, Len(Ops))

CursorColumns ==
  {"current_vocab_number", "current_question_number",
   "current_open_question_number"}
\* the student's cursor before and after the call
CursorBefore(column) == turn.before.user[1][column]
CursorAfter(column) == UserData(user_sheet, turn.phone)[column]
CursorsUnchanged == \A c \in CursorColumns : CursorAfter(c) = CursorBefore(c)
DayOfStudent == turn.before.user[1].day_of_training

\* the sessions of the student after the call
VocabSessionAfter == Get(vocab_sessions, turn.phone)
ClosedSessionAfter == Get(reading_sessions, turn.phone)
OpenSessionAfter == Get(open_reading_sessions, turn.phone)

\* the content the sheets hold for the student's day at a cursor value
VocabItemAt(index) ==
  IF index + 1 \in 1..NumVocab THEN Some(VocabRowsOfDay(DayOfStudent)[index + 1])
  ELSE None
ClosedItemAt(q_num) ==
  IF q_num \in 1..NumClosed THEN Some(ClosedRowsOfDay(DayOfStudent)[q_num])
  ELSE None
OpenItemAt(q_num) ==
  IF q_num \in 1..NumOpen THEN Some(OpenRowsOfDay(DayOfStudent)[q_num])
  ELSE None

\* the session a successful start creates for the item at the cursor
FreshVocabSession(index) ==
  [attempt |-> 1, last_vocab |-> VocabItemAt(index)[1]]
FreshClosedSession(q_num) ==
  [passage |-> ClosedItemAt(q_num)[1].passage_text,
   question |-> ClosedItemAt(q_num)[1].question_text,
   attempt |-> 1, mode |-> "", last_user_answer |-> EmptyString]
FreshOpenSession(q_num) == [question |-> OpenItemAt(q_num)[1].question_text]

(***************************************************************************)
(* Dispatcher precedence.                                                  *)
(***************************************************************************)
AnyReplyHandlerCalled ==
  \/ Called("handle_vocab_reply")
  \/ Called("handle_reading_reply")
  \/ Called("handle_open_reading_reply")
AnyStartCalled ==
  \/ Called("start_vocab_session")
  \/ Called("start_reading_session")
  \/ Called("start_open_reading_session")
BothReadingTracksActive ==
  CommandFree /\ turn.before.open # None /\ turn.before.closed # None

\* C1: a message without a command keyword, from a student who has both an
\* open-reading and a closed-reading session, is handled by
\* handle_open_reading_reply and never by handle_reading_reply, and the
\* closed-reading session is the same after the call as before it.
C1_OpenBeforeClosed ==
  BothReadingTracksActive =>
    /\ Called("handle_open_reading_reply")
    /\ ~Called("handle_reading_reply")
    /\ ClosedSessionAfter = turn.before.closed

\* the open-reading handler has classified a reply while a closed-reading
\* session in its third attempt was waiting
C1_Witness ==
  /\ BothReadingTracksActive
  /\ turn.before.closed[1].attempt = 3
  /\ Judged("is_reply_relevant_to_learning", TRUE)
  /\ Called("handle_open_reading_reply")

\* the item at the cursor after the call, per track
VocabItemNow == VocabItemAt(CursorAfter("current_vocab_number"))
ClosedItemNow == ClosedItemAt(CursorAfter("current_question_number"))
OpenItemNow == OpenItemAt(CursorAfter("current_open_question_number"))

\* C2 (as stated): after a vocab, reading or warm up command, the session of
\* the command's track exists and is a freshly initialized one.
C2_CommandAlwaysCreatesSession ==
  /\ Commanded("vocab") =>
       /\ VocabItemNow # None
       /\ VocabSessionAfter =
            Some(FreshVocabSession(CursorAfter("current_vocab_number")))
  /\ Commanded("reading") =>
       /\ ClosedItemNow # None
       /\ ClosedSessionAfter =
            Some(FreshClosedSession(CursorAfter("current_question_number")))
  /\ Commanded("warm up") =>
       /\ OpenItemNow # None
       /\ OpenSessionAfter =
            Some(FreshOpenSession(CursorAfter("current_open_question_number")))

\* C2 (amended): a command wins over every active session: no reply handler
\* runs, only the command's own start does; after a vocab, reading or
\* warm up command the session of that track is the freshly initialized one
\* for the item at the student's cursor when such an item exists, and is
\* absent when none exists; a start (greet) command calls no controller and
\* leaves every session as it was.
C2_CommandWins ==
  /\ (\E k \in Keywords : Commanded(k)) => ~AnyReplyHandlerCalled
  /\ Commanded("start") =>
       /\ ~AnyStartCalled
       /\ VocabSessionAfter = turn.before.vocab
       /\ ClosedSessionAfter = turn.before.closed
       /\ OpenSessionAfter = turn.before.open
  /\ Commanded("vocab") =>
       /\ Called("start_vocab_session")
       /\ ~Called("start_reading_session")
       /\ ~Called("start_open_reading_session")
       /\ VocabSessionAfter =
            IF VocabItemNow = None THEN None
            ELSE Some(FreshVocabSession(CursorAfter("current_vocab_number")))
  /\ Commanded("reading") =>
       /\ Called("start_reading_session")
       /\ ~Called("start_vocab_session")
       /\ ~Called("start_open_reading_session")
       /\ ClosedSessionAfter =
            IF ClosedItemNow = None THEN None
            ELSE Some(FreshClosedSession(CursorAfter("current_question_number")))
  /\ Commanded("warm up") =>
       /\ Called("start_open_reading_session")
       /\ ~Called("start_vocab_session")
       /\ ~Called("start_reading_session")
       /\ OpenSessionAfter =
            IF OpenItemNow = None THEN None
            ELSE Some(FreshOpenSession(CursorAfter("current_open_question_number")))

\* a vocab command has replaced a vocab session in its second attempt while
\* an open-reading and a closed-reading session were active
C2_Witness ==
  /\ Commanded("vocab")
  /\ turn.before.vocab # None
  /\ turn.before.vocab[1].attempt = 2
  /\ turn.before.open # None
  /\ turn.before.closed # None
  /\ VocabSessionAfter # None
  /\ VocabSessionAfter[1].attempt = 1

(***************************************************************************)
(* Completion events and the durable cursors.                              *)
(***************************************************************************)
VocabCompletion ==
  /\ Handled
  /\ Called("handle_vocab_reply")
  /\ turn.before.vocab # None
  /\ \/ Judged("evaluate_answer", "True")
     \/ Judged("evaluate_answer", "False") /\ turn.before.vocab[1].attempt = 2
ReflectionCompletion ==
  /\ Handled
  /\ Called("handle_reading_reply")
  /\ turn.before.closed # None
  /\ turn.before.closed[1].mode = "reflection"
ExhaustionCompletion ==
  /\ Handled
  /\ Called("handle_reading_reply")
  /\ turn.before.closed # None
  /\ turn.before.closed[1].mode # "reflection"
  /\ turn.before.closed[1].attempt = 3
  /\ Judged("is_student_answering_question", TRUE)
  /\ Judged("evaluate_answer", "False")
OpenCompletion ==
  /\ Handled
  /\ Called("handle_open_reading_reply")
  /\ turn.before.open # None
  /\ Judged("is_reply_relevant_to_learning", TRUE)

OnlyAdvanced(column) ==
  /\ CursorAfter(column) = CursorBefore(column) + 1
  /\ \A c \in CursorColumns \ {column} : CursorAfter(c) = CursorBefore(c)

\* C3: every completion event advances the cursor of its own track by
\* exactly 1 and leaves the two other cursors unchanged, and no call of
\* receive_message moves the cursors by more than 1 in total.
C3_CompletionAdvancesOneCursorByOne ==
  /\ VocabCompletion => OnlyAdvanced("current_vocab_number")
  /\ (ReflectionCompletion \/ ExhaustionCompletion) =>
       OnlyAdvanced("current_question_number")
  /\ OpenCompletion => OnlyAdvanced("current_open_question_number")
  /\ Handled =>
       \/ CursorsUnchanged
       \/ \E c \in CursorColumns : OnlyAdvanced(c)

\* a reflection reply has completed a closed-reading item and the chained
\* start has created the session of the next question
C3_Witness ==
  /\ ReflectionCompletion
  /\ OnlyAdvanced("current_question_number")
  /\ ClosedSessionAfter # None
  /\ Called("start_reading_session")

(***************************************************************************)
(* Attempt counters.                                                       *)
(***************************************************************************)
\* C4: in every reachable state a vocab session's attempt is 1 or 2 and a
\* closed-reading session that is not in reflection mode has an attempt in
\* 1..3.
C4_AttemptsInRange ==
  /\ \A p \in DOMAIN vocab_sessions : vocab_sessions[p].attempt \in {1, 2}
  /\ \A p \in DOMAIN reading_sessions :
       reading_sessions[p].mode # "reflection" =>
         reading_sessions[p].attempt \in {1, 2, 3}

\* both counters are at their upper end at once
C4_Witness ==
  /\ Student \in DOMAIN vocab_sessions
  /\ vocab_sessions[Student].attempt = 2
  /\ Student \in DOMAIN reading_sessions
  /\ reading_sessions[Student].mode # "reflection"
  /\ reading_sessions[Student].attempt = 3

(***************************************************************************)
(* Starting a track.                                                       *)
(***************************************************************************)
\* the session of the track was stored after the last call of the start
PutAfterLastCall(fn, track) ==
  \E i, j \in DOMAIN turn.log :
    /\ i < j
    /\ turn.log[i].op = "call" /\ turn.log[i].fn = fn
    /\ \A k \in DOMAIN turn.log :
         (turn.log[k].op = "call" /\ turn.log[k].fn = fn) => k <= i
    /\ turn.log[j].op = "put" /\ turn.log[j].track = track

\* C5: after a call in which start_vocab_session, start_reading_session or
\* start_open_reading_session ran (and returned or failed), the student's
\* entry for that track is either absent or the session that this start
\* created for the item at the cursor, never a session left from before.
C5_StartLeavesNewSessionOrNone ==
  /\ (Handled /\ Called("start_vocab_session")) =>
       \/ VocabSessionAfter = None
       \/ /\ PutAfterLastCall("start_vocab_session", "vocab")
          /\ VocabItemNow # None
          /\ VocabSessionAfter =
               Some(FreshVocabSession(CursorAfter("current_vocab_number")))
  /\ (Handled /\ Called("start_reading_session")) =>
       \/ ClosedSessionAfter = None
       \/ /\ PutAfterLastCall("start_reading_session", "closed")
          /\ ClosedItemNow # None
          /\ ClosedSessionAfter =
               Some(FreshClosedSession(CursorAfter("current_question_number")))
  /\ (Handled /\ Called("start_open_reading_session")) =>
       \/ OpenSessionAfter = None
       \/ /\ PutAfterLastCall("start_open_reading_session", "open")
          /\ OpenItemNow # None
          /\ OpenSessionAfter =
               Some(FreshOpenSession(CursorAfter("current_open_question_number")))

\* the texts handed to the sender after the last call of fn
SentAfterLastCall(fn) ==
  LET calls == {i \in DOMAIN turn.log :
                  turn.log[i].op = "call" /\ turn.log[i].fn = fn}
      last == CHOOSE i \in calls : \A j \in calls : j <= i
      rest == SubSeq(turn.log, last + 1, Len(turn.log))
  IN SelectSeq(rest, LAMBDA e : e.op = "send")

\* C6: a start of any of the three tracks that finds no content item at the
\* track's cursor creates no session and sends exactly one notification.
C6_NoContentNotifiesOnce ==
  /\ (Handled /\ Called("start_vocab_session") /\ VocabItemNow = None) =>
       /\ VocabSessionAfter = None
       /\ Len(SentAfterLastCall("start_vocab_session")) = 1
  /\ (Handled /\ Called("start_reading_session") /\ ClosedItemNow = None) =>
       /\ ClosedSessionAfter = None
       /\ Len(SentAfterLastCall("start_reading_session")) = 1
  /\ (Handled /\ Called("start_open_reading_session") /\ OpenItemNow = None) =>
       /\ OpenSessionAfter = None
       /\ Len(SentAfterLastCall("start_open_reading_session")) = 1

(***************************************************************************)
(* Scenarios of the vocabulary and closed-reading controllers.             *)
(***************************************************************************)
VocabReplyJudged(result, attempt) ==
  /\ Handled
  /\ Called("handle_vocab_reply")
  /\ turn.before.vocab # None
  /\ turn.before.vocab[1].attempt = attempt
  /\ Judged("evaluate_answer", result)

\* C7 (scenario A): an incorrect reply to a vocab session at attempt 1 leaves
\* the session in place with attempt 2 and the same item, leaves the cursors
\* unchanged, and sends exactly one message: the tier-1 hint, which does not
\* reveal the answer.
C7_FirstIncorrectGivesHint ==
  VocabReplyJudged("False", 1) =>
    /\ VocabSessionAfter =
         Some([turn.before.vocab[1] EXCEPT !.attempt = 2])
    /\ CursorsUnchanged
    /\ Len(Sent) = 1
    /\ Sent[1] = [kind |-> "vocab_hint_or_explanation",
                  word |-> turn.before.vocab[1].last_vocab.Word,
                  attempt |-> 1, reveals |-> None]

C7_Witness ==
  /\ VocabReplyJudged("False", 1)
  /\ VocabSessionAfter # None
  /\ VocabSessionAfter[1].attempt = 2
  /\ CursorAfter("current_vocab_number") = 1

\* C8 (scenario B): an incorrect reply to a vocab session at attempt 2
\* advances the vocabulary cursor by 1, deletes the session, sends the full
\* explanation (tier 2, with the canonical meaning) and then starts again:
\* a new session with attempt 1 for the next item and its question, or, when
\* no item remains, the completion message and no session.
C8_SecondIncorrectExplainsAndChains ==
  VocabReplyJudged("False", 2) =>
    /\ OnlyAdvanced("current_vocab_number")
    /\ Len(Sent) = 2
    /\ Sent[1] = [kind |-> "vocab_hint_or_explanation",
                  word |-> turn.before.vocab[1].last_vocab.Word,
                  attempt |-> 2,
                  reveals |->
                    Some(turn.before.vocab[1].last_vocab.ChineseExplaination)]
    /\ IF VocabItemNow # None
       THEN /\ OpsAfterEvaluation =
                 <<"advance", "del", "send", "call", "put", "send">>
            /\ VocabSessionAfter =
                 Some(FreshVocabSession(CursorAfter("current_vocab_number")))
            /\ Sent[2] = [kind |-> "ask_vocab_meaning_question",
                          word |-> VocabItemNow[1].Word]
       ELSE /\ OpsAfterEvaluation =
                 <<"advance", "del", "send", "call", "send">>
            /\ VocabSessionAfter = None
            /\ Sent[2] = VocabAllDoneText

\* the explanation of the first word was followed by the session of the second
C8_Witness ==
  /\ VocabReplyJudged("False", 2)
  /\ CursorBefore("current_vocab_number") = 0
  /\ VocabSessionAfter # None
  /\ VocabSessionAfter[1].last_vocab.Word # turn.before.vocab[1].last_vocab.Word

\* the calls of start_reading_session made during the call, with their note
ReadingStartNotes ==
  LET calls == SelectSeq(turn.log,
                 LAMBDA e : e.op = "call" /\ e.fn = "start_reading_session")
  IN [i \in DOMAIN calls |-> calls[i].prior_learning]

\* C9 (scenario C): an incorrect answer attempt on a closed-reading session
\* at attempt 3 sends the tier-3 explanation with the canonical answer,
\* advances the closed-question cursor by 1, deletes the session and calls
\* start_reading_session with no prior-learning note; a reply to a session
\* in reflection mode calls start_reading_session with the reply (the
\* reflection text) as the note.
C9_ExhaustionChainsWithoutNote ==
  /\ ExhaustionCompletion =>
       /\ Sent[1] =
            [kind |-> "hint_or_explanation",
             question |-> turn.before.closed[1].question,
             attempt |-> 3,
             reveals |->
               Some(ClosedItemAt(CursorBefore("current_question_number"))[1]
                      .answer_text)]
       /\ OnlyAdvanced("current_question_number")
       /\ SubSeq(OpsAfterEvaluation, 1, 4) =
            <<"send", "advance", "del", "call">>
       /\ ReadingStartNotes = <<None>>
  /\ ReflectionCompletion =>
       /\ ReadingStartNotes = <<Some(turn.message)>>
       /\ SubSeq(OpsAfterCall("handle_reading_reply"), 1, 4) =
            <<"send", "advance", "del", "call">>

\* the third incorrect answer to the first question was followed by the
\* session of the second question, introduced without a note
C9_Witness ==
  /\ ExhaustionCompletion
  /\ ReadingStartNotes = <<None>>
  /\ ClosedSessionAfter # None
  /\ ClosedSessionAfter[1].question # turn.before.closed[1].question
  /\ Sent[2] = [kind |-> "question_message",
                question |-> ClosedSessionAfter[1].question,
                prior_learning |-> EmptyString]

NotAnAttempt ==
  /\ Handled
  /\ Called("handle_reading_reply")
  /\ turn.before.closed # None
  /\ turn.before.closed[1].mode # "reflection"
  /\ Judged("is_student_answering_question", FALSE)

\* C10 (scenario D): a reply to a closed-reading session in normal mode that
\* is judged not to be an answer attempt gets exactly one message (the
\* direct answer when judged relevant, the off-topic redirect otherwise) and
\* changes neither the session (attempt, question, passage, mode) nor a
\* cursor.
C10_NonAttemptLeavesSession ==
  NotAnAttempt =>
    /\ Len(Sent) = 1
    /\ Sent[1] = IF Judged("is_reply_relevant_to_learning", TRUE)
                 THEN [kind |-> "answer_to_student_question"]
                 ELSE [kind |-> "irrelevant_redirect"]
    /\ ClosedSessionAfter = turn.before.closed
    /\ CursorsUnchanged

\* a relevant question was answered while the session was at attempt 2
C10_Witness ==
  /\ NotAnAttempt
  /\ Judged("is_reply_relevant_to_learning", TRUE)
  /\ turn.before.closed[1].attempt = 2
  /\ ClosedSessionAfter = turn.before.closed

(***************************************************************************)
(* Session lifecycle across tracks.                                        *)
(***************************************************************************)
\* the session a track held before the call is gone after it
VocabSessionDestroyed == turn.before.vocab # None /\ VocabSessionAfter = None
ClosedSessionDestroyed == turn.before.closed # None /\ ClosedSessionAfter = None
OpenSessionDestroyed == turn.before.open # None /\ OpenSessionAfter = None

\* C11: a start command for one track destroys the in-progress sessions the
\* student has in the other tracks, and a session is destroyed only by a
\* completion of its item (correct or attempts exhausted) or by such a
\* redirect.
C11_RedirectDestroysOtherSessions ==
  /\ Commanded("vocab") =>
       /\ turn.before.closed # None => ClosedSessionAfter = None
       /\ turn.before.open # None => OpenSessionAfter = None
  /\ Commanded("reading") =>
       /\ turn.before.vocab # None => VocabSessionAfter = None
       /\ turn.before.open # None => OpenSessionAfter = None
  /\ Commanded("warm up") =>
       /\ turn.before.vocab # None => VocabSessionAfter = None
       /\ turn.before.closed # None => ClosedSessionAfter = None
  /\ (Handled /\ VocabSessionDestroyed) =>
       \/ VocabCompletion
       \/ Commanded("reading") \/ Commanded("warm up")
  /\ (Handled /\ ClosedSessionDestroyed) =>
       \/ ReflectionCompletion \/ ExhaustionCompletion
       \/ Commanded("vocab") \/ Commanded("warm up")
  /\ (Handled /\ OpenSessionDestroyed) =>
       \/ OpenCompletion
       \/ Commanded("vocab") \/ Commanded("reading")

(***************************************************************************)
(* The default fallback of the dispatcher.                                 *)
(***************************************************************************)
\* a message without a command keyword from a student who has neither an
\* open-reading nor a closed-reading session
DefaultCase ==
  CommandFree /\ turn.before.open = None /\ turn.before.closed = None
\* the prompt the default fallback reads: the text last handed to the sender
\* for this student, or the empty string
LastPrompt ==
  IF turn.before.last_sent = None THEN Some(EmptyString)
  ELSE turn.before.last_sent
\* the i-th event of the call is the verdict of classifier fn on LastPrompt
JudgedAt(i, fn) ==
  /\ i \in DOMAIN turn.log
  /\ turn.log[i].op = "judge"
  /\ turn.log[i].fn = fn
  /\ turn.log[i].prompt = LastPrompt
CalledAt(i, fn) ==
  /\ i \in DOMAIN turn.log
  /\ turn.log[i].op = "call"
  /\ turn.log[i].fn = fn
SentAt(i, kind) ==
  /\ i \in DOMAIN turn.log
  /\ turn.log[i].op = "send"
  /\ turn.log[i].to = turn.phone
  /\ turn.log[i].message.kind = kind
JudgedBy(fn) ==
  \E i \in DOMAIN turn.log : turn.log[i].op = "judge" /\ turn.log[i].fn = fn

\* C12: in the default case the message is first classified against the
\* text last sent to the student; judged an answer attempt, the dispatcher
\* calls handle_vocab_reply and does nothing else (no relevance verdict, no
\* text of its own, no other controller); judged no attempt but relevant, it
\* sends the free-form answer and then calls start_vocab_session.
C12_DefaultClassifiesThenRoutes ==
  DefaultCase =>
    /\ JudgedAt(1, "is_student_answering_question")
    /\ Judged("is_student_answering_question", TRUE) =>
         /\ CalledAt(2, "handle_vocab_reply")
         /\ ~JudgedBy("is_reply_relevant_to_learning")
         /\ ~Called("handle_reading_reply")
         /\ ~Called("handle_open_reading_reply")
         /\ ~Called("start_reading_session")
         /\ ~Called("start_open_reading_session")
    /\ (/\ Judged("is_student_answering_question", FALSE)
        /\ Judged("is_reply_relevant_to_learning", TRUE)) =>
         /\ JudgedAt(2, "is_reply_relevant_to_learning")
         /\ SentAt(3, "answer_to_student_question")
         /\ CalledAt(4, "start_vocab_session")
         /\ ~AnyReplyHandlerCalled
         /\ ~Called("start_reading_session")
         /\ ~Called("start_open_reading_session")

\* a relevant question, asked while a vocab session was in its second
\* attempt, has been answered and the vocabulary session started again
C12_Witness ==
  /\ DefaultCase
  /\ Judged("is_student_answering_question", FALSE)
  /\ Judged("is_reply_relevant_to_learning", TRUE)
  /\ turn.before.last_sent # None
  /\ turn.before.vocab # None
  /\ turn.before.vocab[1].attempt = 2
  /\ SentAt(3, "answer_to_student_question")
  /\ VocabSessionAfter # None
  /\ VocabSessionAfter[1].attempt = 1

\* C13: in the default case a message judged neither an answer attempt nor
\* relevant gets exactly one text, the off-topic redirect, and nothing else
\* happens: no controller runs, and every session and every cursor of the
\* student is as before.
C13_IrrelevantOnlyRedirects ==
  (/\ DefaultCase
   /\ Judged("is_student_answering_question", FALSE)
   /\ Judged("is_reply_relevant_to_learning", FALSE)) =>
    /\ Len(Sent) = 1
    /\ Sent[1].kind = "irrelevant_redirect"
    /\ ~AnyReplyHandlerCalled
    /\ ~AnyStartCalled
    /\ ~turn.raised
    /\ VocabSessionAfter = turn.before.vocab
    /\ ClosedSessionAfter = turn.before.closed
    /\ OpenSessionAfter = turn.before.open
    /\ CursorsUnchanged

\* an off-topic message has been redirected while a vocab session was in its
\* second attempt
C13_Witness ==
  /\ DefaultCase
  /\ Judged("is_student_answering_question", FALSE)
  /\ Judged("is_reply_relevant_to_learning", FALSE)
  /\ turn.before.vocab # None
  /\ turn.before.vocab[1].attempt = 2
  /\ Len(Sent) = 1
  /\ VocabSessionAfter = turn.before.vocab

(***************************************************************************)
(* The durable cursors over time.                                          *)
(***************************************************************************)
StudentNow == UserData(user_sheet, Student)
StudentNext == UserData(user_sheet', Student)

\* C14: no step ever lowers the vocabulary, closed-question or open-question
\* cursor of a student.
C14_CursorsNeverDecrease ==
  [][\A c \in CursorColumns : StudentNext[c] >= StudentNow[c]]_vars

\* C14 (amended): handling an inbound message never changes the training day
\* and never lowers a cursor; the one operation that lowers cursors is
\* advance_day_of_training, which raises the day by 1, sets the
\* closed-question cursor to 1 and the vocabulary cursor to 0, and leaves
\* the open-question cursor as it is.
C14_CursorsDecreaseOnlyOnDayAdvance ==
  [][/\ turn'.log # <<>> =>
          StudentNext.day_of_training = StudentNow.day_of_training
     /\ StudentNext.day_of_training = StudentNow.day_of_training =>
          \A c \in CursorColumns : StudentNext[c] >= StudentNow[c]
     /\ StudentNext.day_of_training # StudentNow.day_of_training =>
          /\ StudentNext.day_of_training = StudentNow.day_of_training + 1
          /\ StudentNext.current_question_number = 1
          /\ StudentNext.current_vocab_number = 0
          /\ StudentNext.current_open_question_number =
               StudentNow.current_open_question_number]_vars

\* on the second day, after the reset, a completed closed-reading item has
\* moved the closed-question cursor on from 1 while the open-question
\* cursor still stands where the first day left it
C14_Witness ==
  /\ Handled
  /\ DayOfStudent = 2
  /\ CursorBefore("current_question_number") = 1
  /\ CursorAfter("current_question_number") = 2
  /\ CursorAfter("current_open_question_number") > 1

(***************************************************************************)
(* The remaining branches of the vocabulary and closed-reading handlers.   *)
(***************************************************************************)
\* the functions called after the judge's verdict on the answer, in order
CallsAfterEvaluation ==
  LET marks == {i \in DOMAIN turn.log :
                  turn.log[i].op = "judge" /\ turn.log[i].fn = "evaluate_answer"}
      last == CHOOSE i \in marks : \A j \in marks : j <= i
      calls == SelectSeq(SubSeq(turn.log, last + 1, Len(turn.log)),
                         LAMBDA e : e.op = "call")
  IN [i \in DOMAIN calls |-> calls[i].fn]

\* C17: a reply to a vocab session (attempt 1 or 2) that is judged correct
\* sends the praise for the item, then advances the vocabulary cursor by 1,
\* then deletes the session, then calls start_vocab_session, in that order.
C17_CorrectPraisesAdvancesDeletesChains ==
  \A attempt \in {1, 2} :
    VocabReplyJudged("True", attempt) =>
      /\ SubSeq(OpsAfterEvaluation, 1, 4) = <<"send", "advance", "del", "call">>
      /\ CallsAfterEvaluation = <<"start_vocab_session">>
      /\ Sent[1] = [kind |-> "vocab_correct_reply",
                    word |-> turn.before.vocab[1].last_vocab.Word,
                    meaning |->
                      turn.before.vocab[1].last_vocab.ChineseExplaination]
      /\ OnlyAdvanced("current_vocab_number")
      /\ VocabSessionAfter =
           IF VocabItemNow = None THEN None
           ELSE Some(FreshVocabSession(CursorAfter("current_vocab_number")))

\* a correct second attempt on the first word was followed by the session of
\* the second word
C17_Witness ==
  /\ VocabReplyJudged("True", 2)
  /\ CursorBefore("current_vocab_number") = 0
  /\ SubSeq(OpsAfterEvaluation, 1, 4) = <<"send", "advance", "del", "call">>
  /\ VocabSessionAfter # None
  /\ VocabSessionAfter[1].last_vocab.Word # turn.before.vocab[1].last_vocab.Word

\* a reply to a closed-reading session in normal mode, judged an attempt
AttemptJudged(result) ==
  /\ Handled
  /\ Called("handle_reading_reply")
  /\ turn.before.closed # None
  /\ turn.before.closed[1].mode # "reflection"
  /\ Judged("is_student_answering_question", TRUE)
  /\ Judged("evaluate_answer", result)

\* C18: a correct answer attempt on a closed-reading session in normal mode
\* leaves the session in place with mode reflection and last_user_answer the
\* reply, attempt, question and passage as before; no cursor moves; exactly
\* one message is sent, the reflective follow-up on the question.
C18_CorrectSwitchesToReflection ==
  AttemptJudged("True") =>
    /\ ClosedSessionAfter =
         Some([turn.before.closed[1] EXCEPT !.mode = "reflection",
                                            !.last_user_answer = turn.message])
    /\ CursorsUnchanged
    /\ Len(Sent) = 1
    /\ Sent[1] = [kind |-> "ask_why_correct",
                  question |-> turn.before.closed[1].question]
    /\ ~AnyStartCalled

\* a correct third attempt has put the session into reflection mode
C18_Witness ==
  /\ AttemptJudged("True")
  /\ turn.before.closed[1].attempt = 3
  /\ ClosedSessionAfter # None
  /\ ClosedSessionAfter[1].mode = "reflection"
  /\ ClosedSessionAfter[1].attempt = 3
  /\ ClosedSessionAfter[1].last_user_answer = <<"because">>

\* what every reply to a session in reflection mode does before the chained
\* start: no classifier is asked; the response to the reflection is sent,
\* the closed-question cursor advances by 1, the session is deleted and
\* start_reading_session is called with the reply as the prior-learning note
ReflectionHandled ==
  /\ \A i \in DOMAIN turn.log : turn.log[i].op # "judge"
  /\ Sent[1] =
       [kind |-> "respond_to_reflection",
        question |-> turn.before.closed[1].question,
        correct_answer |->
          ClosedItemAt(CursorBefore("current_question_number"))[1].answer_text]
  /\ OnlyAdvanced("current_question_number")
  /\ SubSeq(OpsAfterCall("handle_reading_reply"), 1, 4) =
       <<"send", "advance", "del", "call">>
  /\ ReadingStartNotes = <<Some(turn.message)>>

C20_IncorrectHintsAndResends ==
  (AttemptJudged("False") /\ turn.before.closed[1].attempt < 3) =>
    /\ ClosedSessionAfter =
         Some([turn.before.closed[1] EXCEPT !.attempt = @ + 1])
    /\ CursorsUnchanged
    /\ Len(Sent) = 2
    /\ Sent[1] = [kind |-> "hint_or_explanation",
                  question |-> turn.before.closed[1].question,
                  attempt |-> turn.before.closed[1].attempt,
                  reveals |-> None]
    /\ Sent[2] = RetryQuestionText(turn.before.closed[1].question)
    /\ ~AnyStartCalled

\* the second incorrect attempt has been answered with the second hint
C20_Witness ==
  /\ AttemptJudged("False")
  /\ turn.before.closed[1].attempt = 2
  /\ ClosedSessionAfter # None
  /\ ClosedSessionAfter[1].attempt = 3
  /\ Len(Sent) = 2
  /\ Sent[1].attempt = 2

(***************************************************************************)
(* Two students, one program.                                              *)
(***************************************************************************)
\* what the program state s holds for one student
Share(s, phone_number) ==
  [vocab |-> Get(s.vocab_sessions, phone_number),
   closed |-> Get(s.reading_sessions, phone_number),
   open |-> Get(s.open_reading_sessions, phone_number),
   last_sent |-> Get(s.last_sent_messages, phone_number),
   user |-> Some(UserData(s.user_sheet, phone_number))]

Now ==
  [user_sheet |-> user_sheet,
   vocab_sessions |-> vocab_sessions,
   reading_sessions |-> reading_sessions,
   open_reading_sessions |-> open_reading_sessions,
   last_sent_messages |-> last_sent_messages]

\* a coroutine that has done all its effects has left the state its call
\* computes
EffectsAreTheCall ==
  \A r \in Running :
    tasks[r].pc = Len(tasks[r].log) => Now = tasks[r].leaves

\* request r has deleted the completed session of a track and has yet to
\* store the session of the next item of that track
MidChain(r) ==
  /\ r \in Running
  /\ \E i \in 1..tasks[r].pc, j \in (tasks[r].pc + 1)..Len(tasks[r].log) :
       /\ tasks[r].log[i].op = "del"
       /\ tasks[r].log[j].op = "put"
       /\ tasks[r].log[j].track = tasks[r].log[i].track
       /\ \A k \in (i + 1)..tasks[r].pc : tasks[r].log[k].op # "put"

\* C15: between the deletion of the completed session and the storing of
\* the auto-chained one, no other message of that student is being handled:
\* the request in between is the only one whose body has started, so no
\* other call finds the state with the session gone and the cursor moved.
C15_ChainIsAtomic ==
  \A r \in Requests :
    MidChain(r) =>
      \A q \in Requests \ {r} :
        tasks[q].stage = "body" => tasks[q].phone # tasks[r].phone
\* a call is between the delete and the store of a chain, with the cursor
\* already moved, while another request of the same student waits
C15_Witness ==
  \E r \in Requests :
    /\ MidChain(r)
    /\ \E q \in Requests \ {r} : tasks[q].stage = "awaiting"
    /\ UserData(user_sheet, Student) # tasks[r].found.user[1]
    /\ Get(reading_sessions, Student) = None
    /\ tasks[r].found.closed # None

(***************************************************************************)
(* Escalation of the closed-reading hints.                                 *)
(***************************************************************************)
\* the positions of the hint/explanation texts among the texts sent
HintsSent == {i \in DOMAIN Sent : Sent[i].kind = "hint_or_explanation"}
\* the text gives the canonical answer of a closed-reading question
RevealsAnswer(m) ==
  \/ m.kind = "hint_or_explanation" /\ m.reveals # None
  \/ m.kind = "respond_to_reflection"
\* the closed-reading session the call found is still there, in normal mode
ClosedSessionPersists ==
  /\ Handled
  /\ turn.before.closed # None
  /\ turn.before.closed[1].mode # "reflection"
  /\ ClosedSessionAfter # None
  /\ ClosedSessionAfter[1].mode # "reflection"
  /\ ClosedSessionAfter[1].question = turn.before.closed[1].question

\* C21: the hint requested for an incorrect closed-reading attempt is of the
\* tier of the session's attempt number when the reply arrives (1 at attempt
\* 1, 2 at attempt 2); the answer-revealing tier 3 is requested only by the
\* reply that exhausts attempt 3, which completes the item; hints are
\* requested for incorrect attempts only; and no text that gives the
\* canonical answer is sent in a call after which the session is still
\* there in normal mode.
C21_EscalationIsThreeTiered ==
  /\ Handled => (HintsSent # {} => AttemptJudged("False"))
  /\ AttemptJudged("False") =>
       /\ HintsSent = {1}
       /\ Sent[1].attempt = turn.before.closed[1].attempt
       /\ (Sent[1].reveals # None) <=> (turn.before.closed[1].attempt = 3)
       /\ Sent[1].attempt = 3 =>
            /\ ExhaustionCompletion
            /\ OnlyAdvanced("current_question_number")
            /\ \E i \in DOMAIN turn.log :
                 turn.log[i].op = "del" /\ turn.log[i].track = "closed"
  /\ ClosedSessionPersists => \A i \in DOMAIN Sent : ~RevealsAnswer(Sent[i])
\* the second incorrect attempt got the tier-2 hint, which withholds the
\* answer, and the session persists at attempt 3
C21_Witness ==
  /\ AttemptJudged("False")
  /\ turn.before.closed[1].attempt = 2
  /\ Sent[1].attempt = 2
  /\ Sent[1].reveals = None
  /\ ClosedSessionPersists
  /\ ClosedSessionAfter[1].attempt = 3
  /\ CursorsUnchanged

(***************************************************************************)
(* Replies to an open-reading question.                                    *)
(***************************************************************************)
\* handle_open_reading_reply has classified the reply to an existing session
OpenReplyJudged(result) ==
  /\ Handled
  /\ Called("handle_open_reading_reply")
  /\ turn.before.open # None
  /\ Judged("is_reply_relevant_to_learning", result)

\* C22: when handle_open_reading_reply runs on an existing open-reading
\* session and the reply is judged not relevant, exactly one message, the
\* redirect, is sent, the session is the same after the call, no cursor has
\* moved and no start has run.
C22_NotRelevantRedirects ==
  OpenReplyJudged(FALSE) =>
    /\ Sent = <<OpenRedirectText>>
    /\ OpenSessionAfter = turn.before.open
    /\ CursorsUnchanged
    /\ ~AnyStartCalled
\* the second open question was answered off topic and is still waiting
C22_Witness ==
  /\ OpenReplyJudged(FALSE)
  /\ CursorBefore("current_open_question_number") = 2
  /\ OpenSessionAfter = Some(FreshOpenSession(2))
  /\ Sent = <<OpenRedirectText>>

\* C23: when handle_open_reading_reply runs on an existing open-reading
\* session and the reply is judged relevant, the response to the answer is
\* sent, then the open-question cursor is advanced by 1, then the session is
\* deleted, then start_open_reading_session is called, in that order and on
\* the first reply (the session holds no attempt counter); afterwards the
\* session is the one of the next question, or absent when there is none.
C23_RelevantRespondsAdvancesChains ==
  OpenReplyJudged(TRUE) =>
    /\ DOMAIN turn.before.open[1] = {"question"}
    /\ Sent[1] =
         [kind |-> "respond_to_open_answer",
          question |-> turn.before.open[1].question,
          learning_objective |->
            OpenItemAt(CursorBefore("current_open_question_number"))[1]
              .learning_objective,
          answer |->
            OpenItemAt(CursorBefore("current_open_question_number"))[1]
              .answer_text]
    /\ OnlyAdvanced("current_open_question_number")
    /\ SubSeq(OpsAfterCall("handle_open_reading_reply"), 1, 5) =
         <<"judge", "send", "advance", "del", "call">>
    /\ Called("start_open_reading_session")
    /\ OpenSessionAfter =
         IF OpenItemNow = None THEN None
         ELSE Some(FreshOpenSession(CursorAfter("current_open_question_number")))
\* the first open question was answered on topic and the second was asked
C23_Witness ==
  /\ OpenReplyJudged(TRUE)
  /\ CursorBefore("current_open_question_number") = 1
  /\ CursorAfter("current_open_question_number") = 2
  /\ OpenSessionAfter = Some(FreshOpenSession(2))
  /\ Len(Sent) = 2
  /\ Sent[2] = ask_open_question(OpenItemAt(2)[1].question_text)

(***************************************************************************)
(* What a start leaves.                                                    *)
(***************************************************************************)
\* the last call of start function fn stored a session and did not fail
StartSucceeded(fn, track) ==
  Handled /\ ~turn.raised /\ PutAfterLastCall(fn, track)
\* no cursor is written after a start function has been entered
NoAdvanceAfterStart ==
  \A i, j \in DOMAIN turn.log :
    (i < j /\ turn.log[i].op = "call"
       /\ turn.log[i].fn \in {"start_vocab_session", "start_reading_session",
                              "start_open_reading_session"})
    => turn.log[j].op # "advance"
\* a start run by a command, or by the relevant-question fallback of the
\* dispatcher: nothing was completed before it
PlainStart ==
  \/ Commanded("vocab") \/ Commanded("reading") \/ Commanded("warm up")
  \/ DefaultCase /\ Judged("is_student_answering_question", FALSE)
       /\ Judged("is_reply_relevant_to_learning", TRUE)

\* C24: a start that succeeds leaves the session of its track in the initial
\* state for the item at the student's cursor, whatever session was there
\* before: attempt 1 for vocabulary; attempt 1, normal mode and empty last
\* answer for closed reading; just the question for open reading.  No start
\* writes a cursor, so a start by command or by the relevant-question
\* fallback on an item in progress leaves the cursors as they were and the
\* session on the same item with its attempt counter back at 1.
C24_StartYieldsInitialSession ==
  /\ StartSucceeded("start_vocab_session", "vocab") =>
       VocabSessionAfter =
         Some(FreshVocabSession(CursorAfter("current_vocab_number")))
  /\ StartSucceeded("start_reading_session", "closed") =>
       ClosedSessionAfter =
         Some(FreshClosedSession(CursorAfter("current_question_number")))
  /\ StartSucceeded("start_open_reading_session", "open") =>
       OpenSessionAfter =
         Some(FreshOpenSession(CursorAfter("current_open_question_number")))
  /\ Handled => NoAdvanceAfterStart
  /\ PlainStart =>
       /\ CursorsUnchanged
       /\ (Called("start_vocab_session") /\ turn.before.vocab # None) =>
            VocabSessionAfter = Some([turn.before.vocab[1] EXCEPT !.attempt = 1])
       /\ (Called("start_reading_session") /\ turn.before.closed # None) =>
            ClosedSessionAfter =
              Some([turn.before.closed[1] EXCEPT
                      !.attempt = 1, !.mode = "",
                      !.last_user_answer = EmptyString])
       /\ (Called("start_open_reading_session") /\ turn.before.open # None) =>
            OpenSessionAfter = turn.before.open
\* a reading command has put a closed-reading session that was in its third
\* attempt back to attempt 1 on the same question
C24_Witness ==
  /\ Commanded("reading")
  /\ turn.before.closed # None
  /\ turn.before.closed[1].attempt = 3
  /\ StartSucceeded("start_reading_session", "closed")
  /\ ClosedSessionAfter[1].attempt = 1
  /\ ClosedSessionAfter[1].question = turn.before.closed[1].question
  /\ CursorsUnchanged

(***************************************************************************)
(* Order of the steps of a chain.                                          *)
(***************************************************************************)
\* in the call, the cursor column was written once, then the session of the
\* track was deleted, then the start function fn was entered; no session of
\* the track was stored before that entry
ChainOrdered(column, track, fn) ==
  \E a, d, c \in DOMAIN turn.log :
    /\ a < d /\ d < c
    /\ turn.log[a].op = "advance" /\ turn.log[a].column = column
    /\ turn.log[d].op = "del" /\ turn.log[d].track = track
    /\ turn.log[c].op = "call" /\ turn.log[c].fn = fn
    /\ \A k \in DOMAIN turn.log :
         /\ turn.log[k].op = "advance" => k = a
         /\ turn.log[k].op = "del" => k = d
         /\ turn.log[k].op = "put" => (k > c /\ turn.log[k].track = track)

\* C25: in every completion path the session is deleted before the chained
\* session is stored and the chained start runs after the cursor has been
\* advanced: the session the call leaves is the one of the item at the
\* advanced cursor (or none when there is no such item), never the one of
\* the item just completed.
C25_ChainReadsAdvancedCursor ==
  /\ VocabCompletion =>
       /\ ChainOrdered("current_vocab_number", "vocab", "start_vocab_session")
       /\ CursorAfter("current_vocab_number") =
            CursorBefore("current_vocab_number") + 1
       /\ VocabSessionAfter =
            IF VocabItemNow = None THEN None
            ELSE Some(FreshVocabSession(CursorAfter("current_vocab_number")))
       /\ VocabSessionAfter # None =>
            VocabSessionAfter[1].last_vocab # turn.before.vocab[1].last_vocab
  /\ (ReflectionCompletion \/ ExhaustionCompletion) =>
       /\ ChainOrdered("current_question_number", "closed",
                       "start_reading_session")
       /\ CursorAfter("current_question_number") =
            CursorBefore("current_question_number") + 1
       /\ ClosedSessionAfter =
            IF ClosedItemNow = None THEN None
            ELSE Some(FreshClosedSession(CursorAfter("current_question_number")))
       /\ ClosedSessionAfter # None =>
            ClosedSessionAfter[1].question # turn.before.closed[1].question
  /\ OpenCompletion =>
       /\ ChainOrdered("current_open_question_number", "open",
                       "start_open_reading_session")
       /\ CursorAfter("current_open_question_number") =
            CursorBefore("current_open_question_number") + 1
       /\ OpenSessionAfter =
            IF OpenItemNow = None THEN None
            ELSE Some(FreshOpenSession(CursorAfter("current_open_question_number")))
       /\ OpenSessionAfter # None =>
            OpenSessionAfter[1].question # turn.before.open[1].question
\* the first word was answered correctly and the session the call left is
\* the one of the second word
C25_Witness ==
  /\ VocabCompletion
  /\ Judged("evaluate_answer", "True")
  /\ CursorBefore("current_vocab_number") = 0
  /\ VocabSessionAfter = Some(FreshVocabSession(1))
  /\ turn.before.vocab[1].last_vocab = VocabItemAt(0)[1]

(***************************************************************************)
(* A vocabulary reply without a vocabulary session.                        *)
(***************************************************************************)
\* handle_vocab_reply was called for a student without a vocabulary session
VocabReplyWithoutSession ==
  Handled /\ Called("handle_vocab_reply") /\ turn.before.vocab = None

\* C26: handle_vocab_reply called for a student who has no vocabulary
\* session sends exactly one message, the re-entry instruction, and returns:
\* it asks for no classification of the reply, no session is created or
\* changed and no cursor moves.
C26_NoSessionSendsReentry ==
  VocabReplyWithoutSession =>
    /\ OpsAfterCall("handle_vocab_reply") = <<"send">>
    /\ Sent = <<VocabReentryText>>
    /\ ~turn.raised
    /\ ~JudgedBy("evaluate_answer")
    /\ VocabSessionAfter = None
    /\ ClosedSessionAfter = turn.before.closed
    /\ OpenSessionAfter = turn.before.open
    /\ CursorsUnchanged
\* the very first message of a student was taken for an answer and got the
\* re-entry instruction
C26_Witness ==
  /\ VocabReplyWithoutSession
  /\ turn.before.last_sent = None
  /\ Sent = <<VocabReentryText>>
  /\ Get(last_sent_messages, turn.phone) = Some(VocabReentryText)

(***************************************************************************)
(* Failures of the sender.                                                 *)
(***************************************************************************)
\* every way the posts of one call can end: answered 200, answered with an
\* error status, or not answered at all
PostOutcomes == {"200", "500", "exception"}
SendOutcomes == {<<a, b>> : a \in PostOutcomes, b \in PostOutcomes}
\* what a call leaves behind, apart from what the posts returned
Outcome(w) ==
  [state |-> StateOf(w), raised |-> w.raised,
   ops |-> [i \in DOMAIN w.log |-> w.log[i].op]]
\* the call of receive_message for raw, made now, under the given replies
\* and post outcomes
CallNow(raw, llm, net) == receive_message(World(llm, net), Student, raw)
\* the sends of the last call that returned False
FailedSends ==
  {i \in DOMAIN turn.log : turn.log[i].op = "send" /\ ~turn.log[i].returned}

\* C27: a failure of send_whatsapp_message never blocks or reverses
\* progress: whatever message arrives in whatever state, and whichever of
\* its posts fail, the call leaves the cursors, the sessions and the stored
\* last message of the run in which every post succeeds, and does the same
\* steps (advance, delete, chained start included).
C27_SendFailureChangesNothing ==
  \A raw \in RawMessages :
    \A llm \in ScriptsOf(Branch(Student, raw)), net \in SendOutcomes :
      Outcome(CallNow(raw, llm, net)) =
        Outcome(CallNow(raw, llm, <<"200", "200">>))
\* both posts of a completion failed, and the cursor has advanced and the
\* session of the next word is in place
C27_Witness ==
  /\ VocabCompletion
  /\ Cardinality(FailedSends) = 2
  /\ CursorAfter("current_vocab_number") =
       CursorBefore("current_vocab_number") + 1
  /\ VocabSessionAfter # None
  /\ VocabSessionAfter[1].last_vocab # turn.before.vocab[1].last_vocab

(***************************************************************************)
(* A verdict of the judge that cannot be read.                             *)
(***************************************************************************)
\* the judge events of the call that come from evaluate_answer
Evaluations ==
  {i \in DOMAIN turn.log :
     turn.log[i].op = "judge" /\ turn.log[i].fn = "evaluate_answer"}
\* the call ended in the exception `error`
EndedIn(error) ==
  /\ turn.raised
  /\ turn.log[Len(turn.log)] = [op |-> "raise", error |-> error]
\* the call left everything it found for the student as it was
NothingChanged ==
  /\ VocabSessionAfter = turn.before.vocab
  /\ ClosedSessionAfter = turn.before.closed
  /\ OpenSessionAfter = turn.before.open
  /\ Get(last_sent_messages, turn.phone) = turn.before.last_sent
  /\ Some(UserData(user_sheet, turn.phone)) = turn.before.user

\* C28: when the judge's verdict on the answer holds neither marker,
\* evaluate_answer raises ValueError and the message is dropped: in
\* handle_vocab_reply and in handle_reading_reply (normal mode) the call
\* ends in that error, evaluate_answer was asked once, no message was sent,
\* and the sessions (attempt, mode, item) and the cursors are as before.
C28_UnreadableVerdictDropsMessage ==
  /\ (\E a \in {1, 2} : VocabReplyJudged("ValueError", a)) =>
       /\ EndedIn("ValueError")
       /\ Cardinality(Evaluations) = 1
       /\ Sent = <<>>
       /\ NothingChanged
  /\ AttemptJudged("ValueError") =>
       /\ EndedIn("ValueError")
       /\ Cardinality(Evaluations) = 1
       /\ Sent = <<>>
       /\ NothingChanged
\* an answer to a closed-reading question at attempt 2 got an unreadable
\* verdict, after an earlier message had been sent to the student
C28_Witness ==
  /\ AttemptJudged("ValueError")
  /\ turn.before.closed[1].attempt = 2
  /\ turn.before.last_sent # None
  /\ EndedIn("ValueError")
  /\ ClosedSessionAfter = turn.before.closed

(***************************************************************************)
(* Errors of configuration and identity.                                   *)
(***************************************************************************)
\* the call ended in the ValueError of a lookup: the sender is not in the
\* user sheet, or the sheets hold no item for the student's day and cursor
ConfigurationError ==
  /\ turn.log # <<>>
  /\ EndedIn("ValueError")
  /\ ~Judged("evaluate_answer", "ValueError")
\* the steps of a call that send or write
EffectOps == {"send", "advance", "put", "del", "set"}

\* C29: a call that fails with a configuration or identity error has had no
\* side effect: no message was sent, no cursor advanced and no session
\* created, changed or deleted during the call, also when the lookup that
\* fails is the one of an auto-chained start.
C29_ConfigurationErrorLeavesNoTrace ==
  ConfigurationError =>
    /\ \A i \in DOMAIN turn.log : turn.log[i].op \notin EffectOps
    /\ VocabSessionAfter = turn.before.vocab
    /\ ClosedSessionAfter = turn.before.closed
    /\ OpenSessionAfter = turn.before.open
    /\ Get(last_sent_messages, turn.phone) = turn.before.last_sent
    /\ turn.before.user # None =>
         Some(UserData(user_sheet, turn.phone)) = turn.before.user

(***************************************************************************)
(* An attempt counter out of range.                                        *)
(***************************************************************************)
\* handle_vocab_reply judged a reply incorrect on a session whose attempt
\* counter is outside 1..2
VocabAttemptOutOfRange ==
  /\ Handled
  /\ Called("handle_vocab_reply")
  /\ turn.before.vocab # None
  /\ turn.before.vocab[1].attempt \notin {1, 2}
  /\ Judged("evaluate_answer", "False")
\* handle_reading_reply judged a reply incorrect on a normal-mode session
\* whose attempt counter is outside 1..3
ClosedAttemptOutOfRange ==
  /\ AttemptJudged("False")
  /\ turn.before.closed[1].attempt \notin {1, 2, 3}

SessionHolders ==
  {p \in {Student, Classmate, Stranger} :
     \/ Get(vocab_sessions, p) # None
     \/ Get(reading_sessions, p) # None
     \/ Get(open_reading_sessions, p) # None}
\* the session of each track holds the item the content sheet has for the
\* student's day at the cursor of that track
VocabSessionAtCursor(p) ==
  Get(vocab_sessions, p) # None =>
    /\ PhoneKnown(user_sheet, p)
    /\ UserData(user_sheet, p).current_vocab_number + 1 \in 1..NumVocab
    /\ Get(vocab_sessions, p)[1].last_vocab
         = VocabRowsOfDay(UserData(user_sheet, p).day_of_training)
             [UserData(user_sheet, p).current_vocab_number + 1]
ClosedSessionAtCursor(p) ==
  Get(reading_sessions, p) # None =>
    /\ PhoneKnown(user_sheet, p)
    /\ UserData(user_sheet, p).current_question_number \in 1..NumClosed
    /\ Get(reading_sessions, p)[1].question
         = ClosedRowsOfDay(UserData(user_sheet, p).day_of_training)
             [UserData(user_sheet, p).current_question_number].question_text
    \* the answer handle_reading_reply fetches by cursor is the answer to
    \* the session's question
    /\ \E i \in DOMAIN close_reading_sheet :
         /\ close_reading_sheet[i].question_text
              = Get(reading_sessions, p)[1].question
         /\ get_current_answer(user_sheet, close_reading_sheet, p)
              = Some(close_reading_sheet[i].answer_text)
OpenSessionAtCursor(p) ==
  Get(open_reading_sessions, p) # None =>
    /\ PhoneKnown(user_sheet, p)
    /\ UserData(user_sheet, p).current_open_question_number \in 1..NumOpen
    /\ Get(open_reading_sessions, p)[1].question
         = OpenRowsOfDay(UserData(user_sheet, p).day_of_training)
             [UserData(user_sheet, p).current_open_question_number].question_text

\* C31: in every reachable state a vocabulary session holds the item at the
\* vocabulary cursor, which is below the number of items of the student's
\* day; a closed-reading session holds the question at the closed-question
\* cursor; an open-reading session holds the question at the open-question
\* cursor.
C31_SessionsFollowCursors ==
  \A p \in SessionHolders :
    /\ VocabSessionAtCursor(p)
    /\ ClosedSessionAtCursor(p)
    /\ OpenSessionAtCursor(p)

\* a session of every track exists, each for an item the student reached
\* by completing the one before it
C31_Witness ==
  /\ Handled
  /\ VocabSessionAfter # None
  /\ ClosedSessionAfter # None
  /\ OpenSessionAfter # None
  /\ CursorAfter("current_vocab_number") > StudentRow.current_vocab_number
  /\ CursorAfter("current_question_number") > StudentRow.current_question_number
  /\ CursorAfter("current_open_question_number")
       > StudentRow.current_open_question_number

(***************************************************************************)
(* The vocabulary drill: a run of messages that are all judged to answer   *)
(* the last prompt and so all reach handle_vocab_reply.                    *)
(***************************************************************************)
\* the replies of the judge to a message of the drill: the message answers
\* the prompt, and the verdict on it is any the LLM may give
DrillScripts ==
  {[NoLLM EXCEPT !.answered = a, !.is_correct = c] :
     a \in {x \in AnsweredReplies : is_student_answering_question(x)},
     c \in EvalReplies}
\* those with a verdict evaluate_answer can read
ReadableScripts ==
  {llm \in DrillScripts : evaluate_answer(llm.is_correct) # "ValueError"}
\* a message without a command keyword
DrillMessage == <<" ", "because", " ">>
\* the completion notifications among the sends of a call
AllDoneSends(log) ==
  {i \in DOMAIN log : log[i].op = "send" /\ log[i].message = VocabAllDoneText}
\* the calls of receive_message for the messages of a drill, one after the
\* other from the state d.state, each under its own replies of the judge;
\* counts the completion notifications and the calls that did not get to
\* handle_vocab_reply
RECURSIVE Drill(_, _)
Drill(d, scripts) ==
  IF scripts = <<>> THEN d
  ELSE LET w == receive_message(
                  [user_sheet |-> d.state.user_sheet,
                   vocab_sessions |-> d.state.vocab_sessions,
                   reading_sessions |-> d.state.reading_sessions,
                   open_reading_sessions |-> d.state.open_reading_sessions,
                   last_sent_messages |-> d.state.last_sent_messages,
                   llm |-> Head(scripts), net |-> <<>>, log |-> <<>>,
                   raised |-> FALSE],
                  Student, DrillMessage)
       IN Drill([state |-> StateOf(w),
                 notices |-> d.notices + Cardinality(AllDoneSends(w.log)),
                 chained |-> d.chained
                   \/ \E i \in AllDoneSends(w.log) :
                        \E j \in 1..(i - 1) :
                          /\ w.log[j] = [op |-> "call",
                                         fn |-> "start_vocab_session"]
                          /\ \E k \in 1..(j - 1) : w.log[k].op = "del",
                 elsewhere |-> d.elsewhere +
                   (IF \E i \in DOMAIN w.log :
                         w.log[i] = [op |-> "call", fn |-> "handle_vocab_reply"]
                    THEN 0 ELSE 1)],
                Tail(scripts))
\* the drill from the current state
DrillNow(scripts) ==
  Drill([state |-> StateOf(World(NoLLM, <<>>)), notices |-> 0,
         chained |-> FALSE, elsewhere |-> 0], scripts)

\* the vocabulary items of the student's day from the cursor on
Remaining ==
  LET u == UserData(user_sheet, Student)
      n == Len(SelectSeq(vocab_sheet, LAMBDA v : v.Day = u.day_of_training))
  IN IF u.current_vocab_number >= n THEN 0 ELSE n - u.current_vocab_number
\* the drill is over: the cursor is at the end of the day's items, no
\* session is left, and the one completion notification came from the
\* start chained to the last completion
DrillOver(d) ==
  /\ get_current_vocab_row(d.state.user_sheet, vocab_sheet, Student) = None
  /\ Get(d.state.vocab_sessions, Student) = None
  /\ d.notices = 1
  /\ d.chained
  /\ d.elsewhere = 0
NoReadingSession ==
  /\ Get(reading_sessions, Student) = None
  /\ Get(open_reading_sessions, Student) = None

\* C32 (as stated): with N >= 1 vocabulary items remaining and no open or
\* closed session, 2*N messages that are each handled by handle_vocab_reply
\* end the drill: cursor at the end, no vocabulary session, completion
\* notification sent exactly once, by the last chained start.
C32_DrillEndsWithinTwiceTheItems ==
  (NoReadingSession /\ Remaining >= 1) =>
    \A scripts \in [1..(2 * Remaining) -> DrillScripts] :
      DrillOver(DrillNow(scripts))

\* C32: with a vocabulary session in place, N >= 1 items remaining and no
\* open or closed session, 2*N messages that are each handled by
\* handle_vocab_reply and each get a verdict evaluate_answer can read end
\* the drill: cursor at the end, no vocabulary session, completion
\* notification sent exactly once, by the last chained start.
C32_StartedDrillEndsOnReadableVerdicts ==
  (NoReadingSession /\ Remaining >= 1 /\ Get(vocab_sessions, Student) # None) =>
    \A scripts \in [1..(2 * Remaining) -> ReadableScripts] :
      DrillOver(DrillNow(scripts))
\* the last of the day's words was completed by a reply of the drill that
\* began with the first word: the chained start sent the completion
C32_Witness ==
  /\ VocabCompletion
  /\ turn.before.closed = None /\ turn.before.open = None
  /\ CursorAfter("current_vocab_number") = NumVocab
  /\ VocabSessionAfter = None
  /\ Cardinality(AllDoneSends(turn.log)) = 1

(***************************************************************************)
(* Several command keywords in one message.                                *)
(***************************************************************************)
\* the order in which receive_message is said to test the keywords
KeywordOrder == <<"start", "vocab", "reading", "warm up">>
\* the keyword of the message that comes first in that order
FirstKeyword ==
  KeywordOrder[CHOOSE i \in DOMAIN KeywordOrder :
                 /\ KeywordOrder[i] \in KeywordsIn(turn.message)
                 /\ \A j \in 1..(i - 1) :
                      KeywordOrder[j] \notin KeywordsIn(turn.message)]
\* a call for a registered student with several keywords in the message
SeveralKeywords == Handled /\ Cardinality(KeywordsIn(turn.message)) >= 2
\* the start function of each command
StartOf(k) ==
  CASE k = "vocab" -> "start_vocab_session"
    [] k = "reading" -> "start_reading_session"
    [] k = "warm up" -> "start_open_reading_session"
\* the greeting is among the texts sent
Greeted == \E i \in DOMAIN Sent : Sent[i] = greet_student(turn.before.user[1].eng_name)

\* C33: when a message holds several command keywords, only the command
\* that comes first in the order start, vocab, reading, warm up is
\* performed: its start function is the only one called, no reply handler
\* runs and no greeting is sent unless start is among the keywords; with
\* start among them the call only sends the greeting and leaves every
\* session and every cursor of the student as it was.
C33_FirstKeywordInOrderWins ==
  SeveralKeywords =>
    /\ ~AnyReplyHandlerCalled
    /\ FirstKeyword = "start" =>
         /\ Ops = <<"send">>
         /\ Greeted
         /\ VocabSessionAfter = turn.before.vocab
         /\ ClosedSessionAfter = turn.before.closed
         /\ OpenSessionAfter = turn.before.open
         /\ CursorsUnchanged
    /\ FirstKeyword # "start" =>
         /\ ~Greeted
         /\ turn.log[1].op = "call"
         /\ turn.log[1].fn = StartOf(FirstKeyword)
         /\ \A k \in Keywords \ {"start", FirstKeyword} : ~Called(StartOf(k))
         /\ CursorsUnchanged
\* a message with all four keywords, start last in the text, arrived while
\* a session of every track was active, and was answered with the greeting
C33_Witness ==
  /\ SeveralKeywords
  /\ KeywordsIn(turn.message) = Keywords
  /\ turn.before.vocab # None
  /\ turn.before.closed # None
  /\ turn.before.open # None
  /\ Greeted

(***************************************************************************)
(* Replies of the judge that hold no marker.                               *)
(***************************************************************************)
\* the last call went to the reply handler of an active reading session
ClosedReplyHandled ==
  /\ Handled
  /\ Called("handle_reading_reply")
  /\ turn.before.closed # None
  /\ turn.before.closed[1].mode # "reflection"
OpenReplyHandled ==
  /\ Handled
  /\ Called("handle_open_reading_reply")
  /\ turn.before.open # None

\* C34: a reply of the judge that lacks the positive marker is read as
\* false by is_student_answering_question and is_reply_relevant_to_learning
\* and never raises: when every reply to the two classifications is such a
\* reply, a message to a closed-reading session in normal mode gets the
\* off-topic redirect and leaves the session and the cursors unchanged, and
\* a message to an open-reading session gets the redirect and leaves the
\* session unchanged.
C34_UnparseableClassificationIsFalse ==
  /\ \A r \in UnparseableReplies :
       /\ is_student_answering_question(r) = FALSE
       /\ is_reply_relevant_to_learning(r) = FALSE
  /\ ~turn.raised
  /\ ClosedReplyHandled =>
       /\ Judged("is_student_answering_question", FALSE)
       /\ Judged("is_reply_relevant_to_learning", FALSE)
       /\ Sent = <<handle_irrelevant_input_with_llm(turn.message)>>
       /\ ClosedSessionAfter = turn.before.closed
       /\ CursorsUnchanged
  /\ OpenReplyHandled =>
       /\ Judged("is_reply_relevant_to_learning", FALSE)
       /\ Sent = <<OpenRedirectText>>
       /\ OpenSessionAfter = turn.before.open
       /\ CursorsUnchanged
\* a closed-reading session in normal mode has just answered a message with
\* the off-topic redirect and is still in place
C34_Witness ==
  /\ ClosedReplyHandled
  /\ Sent = <<handle_irrelevant_input_with_llm(turn.message)>>
  /\ ClosedSessionAfter = turn.before.closed
  /\ ClosedSessionAfter # None

====
